---- MODULE Spec2Model ----
(***************************************************************************)
(* Lumina dictionary resolution engine (src-tauri/src/db.rs and            *)
(* src-tauri/src/commands/dictionary.rs) as a state machine.               *)
(*                                                                         *)
(* Strings are sequences of one-character strings, so that case folding,   *)
(* str::replace, trim and format! are computed and not assumed.            *)
(* Option<T> is a sequence of length 0 (None) or 1 (Some).                 *)
(***************************************************************************)
EXTENDS Naturals, Sequences, FiniteSets, TLC

VARIABLES
    rootExists,   \* dict_dir.exists() for the directory get_dict_dir() returns
    dirs,         \* entries of the dictionary root, in read_dir order
    dictionary,   \* rows of the store's `dictionary` table, in storage order
    forms,        \* rows of the store's `forms` table, in storage order
    senses,       \* number of rows of the store's `senses` table
    partial,      \* paths <<directory, file>> whose file is only partly written
    exeRoot,      \* the root get_dict_dir() returns is <exe directory>/dict
    call,         \* the request last served and its response (idle: op = "idle")
    termsFile,    \* the terms of data/terms.json, in file order
    cmds,         \* the vocabulary commands in flight, by worker
    events,       \* the events emitted to the windows so far, oldest first
    monitoring,   \* the AtomicBool of AppState.clipboard_monitoring
    loops,        \* the clipboard-monitor threads, by thread
    clipboard     \* the text on the system clipboard

vars == <<rootExists, dirs, dictionary, forms, senses, partial, exeRoot, call,
          termsFile, cmds, events, monitoring, loops, clipboard>>

\* the state outside the dictionary engine
appVars == <<termsFile, cmds, events, monitoring, loops, clipboard>>

\* no vocabulary command in flight, no monitor thread, nothing emitted
AppAtRest ==
    /\ termsFile = <<>>
    /\ cmds = <<>>
    /\ events = <<>>
    /\ monitoring = FALSE
    /\ loops = <<>>
    /\ clipboard = <<>>

(***************************************************************************)
(* Bounds of the model.                                                    *)
(***************************************************************************)
MaxDictRows == 2
MaxFormRows == 2
MaxFaults == 1
MaxBatch == 2
MaxDirs == 2
MaxFiles == 2

(***************************************************************************)
(* Option and string helpers.                                              *)
(***************************************************************************)
None == <<>>
Some(x) == <<x>>
IsSome(o) == Len(o) = 1
Unwrap(o) == o[1]

UpperChars == <<"A","B","C","D","E","F","G","H","I","J","K","L","M","N","O","P","Q",
                "R","S","T","U","V","W","X","Y","Z","Ä","Ö","Ü","ẞ">>
LowerChars == <<"a","b","c","d","e","f","g","h","i","j","k","l","m","n","o","p","q",
                "r","s","t","u","v","w","x","y","z","ä","ö","ü","ß">>

LowerChar(c) ==
    IF \E i \in 1..Len(UpperChars) : UpperChars[i] = c
    THEN LowerChars[CHOOSE i \in 1..Len(UpperChars) : UpperChars[i] = c]
    ELSE c

\* str::to_lowercase
to_lowercase(s) == [i \in 1..Len(s) |-> LowerChar(s[i])]

\* str::replace(from, to) for a one-character pattern `from`
RECURSIVE str_replace(_, _, _)
str_replace(s, from, to) ==
    IF s = <<>> THEN <<>>
    ELSE (IF Head(s) = from THEN to ELSE <<Head(s)>>) \o str_replace(Tail(s), from, to)

IsWhitespace(c) == c \in {" ", "\t", "\n"}

RECURSIVE trim_start(_)
trim_start(s) ==
    IF s # <<>> /\ IsWhitespace(Head(s)) THEN trim_start(Tail(s)) ELSE s

RECURSIVE trim_end(_)
trim_end(s) ==
    IF s # <<>> /\ IsWhitespace(s[Len(s)]) THEN trim_end(SubSeq(s, 1, Len(s) - 1)) ELSE s

\* str::trim
trim(s) == trim_end(trim_start(s))

\* `needle` occurs in `s` as a contiguous substring
Contains(s, needle) ==
    \E i \in 1..(Len(s) + 1) :
        /\ i + Len(needle) - 1 <= Len(s)
        /\ SubSeq(s, i, i + Len(needle) - 1) = needle

(***************************************************************************)
(* db.rs: normalize_word                                                   *)
(***************************************************************************)
replacements ==
    << <<"ä", <<"a","e">> >>, <<"Ä", <<"A","e">> >>,
       <<"ö", <<"o","e">> >>, <<"Ö", <<"O","e">> >>,
       <<"ü", <<"u","e">> >>, <<"Ü", <<"U","e">> >>,
       <<"ß", <<"s","s">> >>, <<"ẞ", <<"S","s">> >>,
       <<"-", <<>> >>, <<"/", <<>> >> >>

RECURSIVE ApplyReplacements(_, _)
ApplyReplacements(s, i) ==
    IF i > Len(replacements) THEN s
    ELSE ApplyReplacements(str_replace(s, replacements[i][1], replacements[i][2]), i + 1)

\* A normalizer that forgets the final case fold.
normalize_word_nofold(word) == ApplyReplacements(word, 1)

normalize_word(word) == to_lowercase(ApplyReplacements(word, 1))

(***************************************************************************)
(* Names used by the code and by the scenarios.                            *)
(***************************************************************************)
S_de == <<"d","e">>
S_sa == <<"s","a">>
S_xx == <<"x","x">>
S_German == <<"G","e","r","m","a","n">>
S_dict_db_suffix == <<"_","d","i","c","t",".","d","b">>
S_dict_sqlite_suffix == <<"_","d","i","c","t",".","s","q","l","i","t","e">>
S_dictionary_db == <<"d","i","c","t","i","o","n","a","r","y",".","d","b">>
S_dict_db == <<"d","i","c","t",".","d","b">>
S_dict_sqlite == <<"d","i","c","t",".","s","q","l","i","t","e">>
S_readme == <<"R","E","A","D","M","E">>

W_lauf == <<"l","a","u","f">>
W_Lauf == <<"L","a","u","f">>
W_laufen == <<"l","a","u","f","e","n">>
W_blank == <<" ">>
W_empty == <<>>
T_past == <<"p","a","s","t">>
T_error == <<"e","r","r","o","r","-","u","n","k","n","o","w","n","-","t","a","g">>
T_error_lit == <<"e","r","r","o","r">>

\* db.rs: the name_to_code table of get_connection and get_available_languages
name_to_code ==
    << <<<<"g","e","r","m","a","n">>, <<"d","e">>>>,
       <<<<"s","a","n","s","k","r","i","t">>, <<"s","a">>>>,
       <<<<"e","n","g","l","i","s","h">>, <<"e","n">>>>,
       <<<<"f","r","e","n","c","h">>, <<"f","r">>>>,
       <<<<"s","p","a","n","i","s","h">>, <<"e","s">>>>,
       <<<<"i","t","a","l","i","a","n">>, <<"i","t">>>>,
       <<<<"p","o","r","t","u","g","u","e","s","e">>, <<"p","t">>>>,
       <<<<"r","u","s","s","i","a","n">>, <<"r","u">>>>,
       <<<<"c","h","i","n","e","s","e">>, <<"z","h">>>>,
       <<<<"j","a","p","a","n","e","s","e">>, <<"j","a">>>>,
       <<<<"k","o","r","e","a","n">>, <<"k","o">>>>,
       <<<<"a","r","a","b","i","c">>, <<"a","r">>>> >>

(***************************************************************************)
(* The filesystem under the dictionary root.  A root entry is a record     *)
(* [name, isDir, files]; `dirs` and each `files` are in read_dir order.    *)
(***************************************************************************)
Min(S) == CHOOSE x \in S : \A y \in S : x <= y

SeqHas(seq, x) == \E i \in 1..Len(seq) : seq[i] = x

\* db.rs get_connection: `matches`
ConnMatches(dir_name, lang_code) ==
    \/ dir_name = lang_code
    \/ \E i \in 1..Len(name_to_code) :
          \/ (dir_name = name_to_code[i][1] /\ lang_code = name_to_code[i][2])
          \/ (dir_name = name_to_code[i][2] /\ lang_code = name_to_code[i][2])

\* db.rs get_connection: `patterns`
ConnPatterns(lang_code, dir_name) ==
    << lang_code \o S_dict_db_suffix, S_dictionary_db, dir_name \o S_dict_db_suffix >>

\* the files of root entry d that get_connection(lang_code) accepts, by position
ConnFiles(d, lang_code) ==
    { j \in 1..Len(d.files) :
        SeqHas(ConnPatterns(lang_code, to_lowercase(d.name)), d.files[j]) }

\* the root entries in which get_connection(lang_code) finds a store file
ConnDirs(lang_code) ==
    { i \in 1..Len(dirs) :
        /\ dirs[i].isDir
        /\ ConnMatches(to_lowercase(dirs[i].name), lang_code)
        /\ ConnFiles(dirs[i], lang_code) # {} }

\* A provider that opens whatever file it meets first in a matching directory.
get_connection_anyfile(lang_code) ==
    LET cand == { i \in 1..Len(dirs) :
                    /\ dirs[i].isDir
                    /\ ConnMatches(to_lowercase(dirs[i].name), lang_code)
                    /\ dirs[i].files # <<>> }
    IN  IF ~rootExists THEN [ok |-> FALSE, err |-> "RootNotFound", path |-> None]
        ELSE IF cand = {} THEN [ok |-> FALSE, err |-> "NotFound", path |-> None]
        ELSE [ok |-> TRUE, err |-> "",
              path |-> Some(<<dirs[Min(cand)].name, dirs[Min(cand)].files[1]>>)]

\* db.rs get_connection, up to the path it hands to Connection::open
get_connection(lang_code) ==
    IF ~rootExists THEN [ok |-> FALSE, err |-> "RootNotFound", path |-> None]
    ELSE IF ConnDirs(lang_code) = {} THEN [ok |-> FALSE, err |-> "NotFound", path |-> None]
    ELSE LET d == dirs[Min(ConnDirs(lang_code))]
         IN  [ok |-> TRUE, err |-> "",
              path |-> Some(<<d.name, d.files[Min(ConnFiles(d, lang_code))]>>)]

\* db.rs get_available_languages: (lang_code, lang_name) of a directory name
ListCodeName(dir_name) ==
    LET hit == { i \in 1..Len(name_to_code) :
                    dir_name = name_to_code[i][1] \/ dir_name = name_to_code[i][2] }
    IN  IF hit = {} THEN <<dir_name, dir_name>>
        ELSE <<name_to_code[Min(hit)][2], name_to_code[Min(hit)][1]>>

\* db.rs get_available_languages: `db_files` with "{}" replaced by lang_code
ListPatterns(lang_code) ==
    << lang_code \o S_dict_db_suffix, lang_code \o S_dict_sqlite_suffix,
       S_dict_db, S_dict_sqlite >>

\* db.rs get_available_languages: the first pattern whose path exists in d
ListDbPath(d, lang_code) ==
    LET pats == ListPatterns(lang_code)
        hit  == { k \in 1..Len(pats) : SeqHas(d.files, pats[k]) }
    IN  IF hit = {} THEN None ELSE Some(<<d.name, pats[Min(hit)]>>)

\* COUNT(DISTINCT word) FROM dictionary; COUNT(*) FROM forms
CountWords == Cardinality({ dictionary[i].word : i \in 1..Len(dictionary) })
CountForms == Len(forms)

\* db.rs get_available_languages: the record pushed for root entry d, if any
ListRecord(d) ==
    LET cn == ListCodeName(to_lowercase(d.name))
        db == ListDbPath(d, cn[1])
        conn == get_connection(cn[1])
    IN  IF d.isDir /\ IsSome(db) /\ conn.ok
        THEN << [code |-> cn[1], name |-> cn[2], has_local |-> TRUE,
                 word_count |-> CountWords, form_count |-> CountForms,
                 path |-> db, opened |-> conn.path] >>
        ELSE <<>>

RECURSIVE ListFrom(_)
ListFrom(i) == IF i > Len(dirs) THEN <<>> ELSE ListRecord(dirs[i]) \o ListFrom(i + 1)

\* db.rs get_available_languages
get_available_languages == IF ~rootExists THEN <<>> ELSE ListFrom(1)

(***************************************************************************)
(* db.rs: search_dictionary.  `faults` is the set of steps whose storage   *)
(* call fails in this run: "open" (Connection::open), "exact",             *)
(* "normalized", "form", "normform" (the four lookups), "fetch" (prepare / *)
(* query_map of the entry query) and "row" (the row closure returns Err).  *)
(***************************************************************************)
FaultNames == {"open", "exact", "normalized", "form", "normform", "fetch", "row"}

AsciiLowerChar(c) ==
    IF \E i \in 1..26 : UpperChars[i] = c
    THEN LowerChars[CHOOSE i \in 1..26 : UpperChars[i] = c]
    ELSE c

\* SQL: tags LIKE '%error%'  (LIKE folds ASCII case)
LikeError(tags) ==
    Contains([i \in 1..Len(tags) |-> AsciiLowerChar(tags[i])], T_error_lit)

\* A filter that lets every forms row through.
TagsAcceptedNoFilter(tags) == TRUE

\* SQL: tags IS NULL OR tags NOT LIKE '%error%'
TagsAccepted(tags) == tags = None \/ ~LikeError(Unwrap(tags))

\* SELECT id FROM dictionary WHERE word = ?1 LIMIT 1
QueryExactHeadword(word) ==
    LET hit == { i \in 1..Len(dictionary) : dictionary[i].word = word }
    IN  IF hit = {} THEN None ELSE Some(dictionary[Min(hit)].id)

\* SELECT id FROM dictionary WHERE normalized_word = ?1 LIMIT 1
QueryNormalizedHeadword(normalized) ==
    LET hit == { i \in 1..Len(dictionary) : dictionary[i].normalized_word = normalized }
    IN  IF hit = {} THEN None ELSE Some(dictionary[Min(hit)].id)

\* SELECT dictionary_id, tags FROM forms WHERE form = ?1 AND (...) LIMIT 1
QueryExactForm(word) ==
    LET hit == { i \in 1..Len(forms) :
                    forms[i].form = word /\ TagsAccepted(forms[i].tags) }
    IN  IF hit = {} THEN None ELSE Some(forms[Min(hit)])

\* SELECT dictionary_id, tags FROM forms WHERE normalized_form = ?1 AND (...) LIMIT 1
QueryNormalizedForm(normalized) ==
    LET hit == { i \in 1..Len(forms) :
                    forms[i].normalized_form = normalized /\ TagsAccepted(forms[i].tags) }
    IN  IF hit = {} THEN None ELSE Some(forms[Min(hit)])

\* Vec<String>::join("; ")
RECURSIVE JoinTags(_)
JoinTags(ts) ==
    IF ts = <<>> THEN <<>>
    ELSE IF Len(ts) = 1 THEN ts[1]
    ELSE ts[1] \o <<";", " ">> \o JoinTags(Tail(ts))

\* An Inflection block attached when the texts are equal.
InflectionsForSame(dict_word, word, root_entry_id, inflection_tags) ==
    IF IsSome(root_entry_id) /\ dict_word = word
    THEN Some(<< [form |-> word, normalized_form |-> None,
                  tags |-> IF inflection_tags = <<>> THEN None
                           ELSE Some(JoinTags(inflection_tags))] >>)
    ELSE None

\* An Inflection block attached whenever the texts differ.
InflectionsForDiffers(dict_word, word, root_entry_id, inflection_tags) ==
    IF dict_word # word
    THEN Some(<< [form |-> word, normalized_form |-> None,
                  tags |-> IF inflection_tags = <<>> THEN None
                           ELSE Some(JoinTags(inflection_tags))] >>)
    ELSE None

\* db.rs search_dictionary: `inflections_for_this`
InflectionsFor(dict_word, word, root_entry_id, inflection_tags) ==
    IF IsSome(root_entry_id) /\ dict_word # word
    THEN Some(<< [form |-> word, normalized_form |-> None,
                  tags |-> IF inflection_tags = <<>> THEN None
                           ELSE Some(JoinTags(inflection_tags))] >>)
    ELSE None

\* db.rs search_dictionary: the DictionaryEntry built from one row
EntryOf(row, entry_id, word, root_entry_id, inflection_tags) ==
    [ entry_id    |-> Some(ToString(entry_id)),
      text        |-> row.word,
      root_form   |-> Some(row.normalized_word),
      inflections |-> InflectionsFor(row.word, word, root_entry_id, inflection_tags) ]

\* SELECT ... FROM dictionary d WHERE d.id = ?1, mapped row by row
FetchEntries(entry_id, word, root_entry_id, inflection_tags) ==
    LET rows == SelectSeq(dictionary, LAMBDA r : r.id = entry_id)
    IN  [ i \in 1..Len(rows) |->
            EntryOf(rows[i], entry_id, word, root_entry_id, inflection_tags) ]

\* A result loop that pushes every entry.
DedupNone(entries) == entries

\* db.rs search_dictionary: the seen_texts loop
RECURSIVE Dedup(_)
Dedup(entries) ==
    IF entries = <<>> THEN <<>>
    ELSE LET init == Dedup(SubSeq(entries, 1, Len(entries) - 1))
             last == entries[Len(entries)]
         IN  IF \E i \in 1..Len(init) : init[i].text = last.text
             THEN init ELSE Append(init, last)

\* Ok(results); `stages` records which SQL statements were issued and `via`
\* the forms row, if any, through which the headword was reached
OkResult(entries, stages, via) ==
    [ok |-> TRUE, err |-> "", entries |-> entries, opened |-> TRUE,
     stages |-> stages, via |-> via]

ErrResult(err, opened, stages) ==
    [ok |-> FALSE, err |-> err, entries |-> <<>>, opened |-> opened,
     stages |-> stages, via |-> None]

\* A headword stage that hands the raw word to the normalized lookup.
HeadwordStageRawParam(word, normalized, faults) ==
    LET exact == IF "exact" \in faults THEN None ELSE QueryExactHeadword(word)
        norm  == IF IsSome(exact) \/ "normalized" \in faults THEN None
                 ELSE QueryNormalizedHeadword(word)
    IN  [id |-> IF IsSome(exact) THEN exact ELSE norm,
         stages |-> {"exact"} \cup (IF exact = None THEN {"normalized"} ELSE {})]

\* db.rs search_dictionary, step 1: exact headword, then normalized headword
HeadwordStage(word, normalized, faults) ==
    LET exact == IF "exact" \in faults THEN None ELSE QueryExactHeadword(word)
        norm  == IF IsSome(exact) \/ "normalized" \in faults THEN None
                 ELSE QueryNormalizedHeadword(normalized)
    IN  [id |-> IF IsSome(exact) THEN exact ELSE norm,
         stages |-> {"exact"} \cup (IF exact = None THEN {"normalized"} ELSE {})]

\* db.rs search_dictionary, step 2: exact form, then normalized form
FormsStage(word, normalized, faults) ==
    LET form  == IF "form" \in faults THEN None ELSE QueryExactForm(word)
        nform == IF IsSome(form) \/ "normform" \in faults THEN None
                 ELSE QueryNormalizedForm(normalized)
    IN  [row |-> IF IsSome(form) THEN form ELSE nform,
         stages |-> {"form"} \cup (IF form = None THEN {"normform"} ELSE {})]

NoFormsStage == [row |-> None, stages |-> {}]

\* db.rs search_dictionary, step 4: fetch the entries of the resolved id
Resolve(word, faults, headId, fs) ==
    LET root_entry_id == IF IsSome(fs.row) THEN Some(Unwrap(fs.row).dictionary_id) ELSE None
        inflection_tags == IF IsSome(fs.row) /\ IsSome(Unwrap(fs.row).tags)
                           THEN << Unwrap(Unwrap(fs.row).tags) >> ELSE <<>>
        dictionary_id == IF IsSome(root_entry_id) THEN root_entry_id ELSE headId
    IN  IF dictionary_id = None THEN [ok |-> TRUE, entries |-> <<>>, stages |-> {}]
        \* prepare(...).map_err(..)? and query_map(...).map_err(..)? propagate
        ELSE IF "fetch" \in faults THEN [ok |-> FALSE, entries |-> <<>>, stages |-> {"fetch"}]
        \* entries.filter_map(|e| e.ok()) drops the rows whose closure failed
        ELSE IF "row" \in faults THEN [ok |-> TRUE, entries |-> <<>>, stages |-> {"fetch"}]
        ELSE [ok |-> TRUE, stages |-> {"fetch"},
              entries |-> Dedup(FetchEntries(Unwrap(dictionary_id), word,
                                             root_entry_id, inflection_tags))]

\* A resolver that asks the forms table before the headword table.
SearchStoreFormsFirst(word, faults) ==
    LET normalized == normalize_word(word)
        fs == FormsStage(word, normalized, faults)
        hs == HeadwordStage(word, normalized, faults)
        r  == Resolve(word, faults, hs.id, fs)
    IN  IF r.ok THEN OkResult(r.entries, hs.stages \cup fs.stages \cup r.stages, fs.row)
        ELSE ErrResult("Sql", TRUE, hs.stages \cup fs.stages \cup r.stages)

\* db.rs search_dictionary after get_connection succeeded
SearchStore(word, faults) ==
    LET normalized == normalize_word(word)
        hs == HeadwordStage(word, normalized, faults)
        \* only if the dictionary had no match
        fs == IF hs.id = None THEN FormsStage(word, normalized, faults) ELSE NoFormsStage
        r  == Resolve(word, faults, hs.id, fs)
    IN  IF r.ok THEN OkResult(r.entries, hs.stages \cup fs.stages \cup r.stages, fs.row)
        ELSE ErrResult("Sql", TRUE, hs.stages \cup fs.stages \cup r.stages)

\* db.rs search_dictionary
db_search_dictionary(word, lang_code, faults) ==
    LET conn == get_connection(lang_code)
    IN  IF ~conn.ok THEN ErrResult(conn.err, FALSE, {})
        ELSE IF "open" \in faults THEN ErrResult("OpenFailed", FALSE, {})
        ELSE SearchStore(word, faults)

(***************************************************************************)
(* commands/dictionary.rs: search_dictionary and batch_query_dictionary    *)
(***************************************************************************)
CmdResult(success, entries, source, r) ==
    [success |-> success, entries |-> entries, source |-> source,
     opened |-> r.opened, stages |-> r.stages]

NotRun == [opened |-> FALSE, stages |-> {}]

\* commands/dictionary.rs search_dictionary
cmd_search_dictionary(word, language, faults) ==
    IF trim(word) = <<>> THEN CmdResult(TRUE, <<>>, "local", NotRun)
    ELSE IF language = S_sa THEN CmdResult(TRUE, <<>>, "sanskrit-only", NotRun)
    ELSE LET r == db_search_dictionary(word, language, faults)
         IN  IF r.ok THEN CmdResult(TRUE, r.entries, "local", r)
             ELSE CmdResult(FALSE, <<>>, "error", r)

\* commands/dictionary.rs batch_query_dictionary: the loop over `words`
BatchLookups(words, language, faults) ==
    [ i \in 1..Len(words) |-> db_search_dictionary(words[i], language, faults) ]

\* commands/dictionary.rs batch_query_dictionary
batch_query_dictionary(words, language, faults) ==
    IF language = S_sa
    THEN [success |-> TRUE, results |-> <<>>, found |-> 0, total |-> Len(words),
          lookups |-> <<>>]
    ELSE LET rs  == BatchLookups(words, language, faults)
             hit == { i \in 1..Len(words) : rs[i].ok /\ rs[i].entries # <<>> }
             keys == { words[i] : i \in hit }
         IN  [success |-> TRUE,
              \* HashMap::insert: the last insertion for a key stays
              results |-> [ w \in keys |->
                              rs[CHOOSE i \in hit : words[i] = w
                                    /\ \A j \in hit : words[j] = w => j <= i].entries ],
              found |-> Cardinality(hit), total |-> Len(words),
              lookups |-> rs]

(***************************************************************************)
(* Inputs of the model.                                                    *)
(***************************************************************************)
SeqsUpTo(S, n) == UNION { [1..k -> S] : k \in 0..n }

\* the sequences of at most n distinct elements of S
DistinctSeqsUpTo(S, n) ==
    { q \in SeqsUpTo(S, n) : \A i, j \in 1..Len(q) : i # j => q[i] # q[j] }

DictIds == {1, 2}

\* (word, normalized_word) of the headwords a store may hold
HeadKinds == { <<W_lauf, W_lauf>>, <<W_laufen, W_laufen>> }

DictRowValues ==
    { [id |-> i, word |-> k[1], normalized_word |-> k[2]] : i \in DictIds, k \in HeadKinds }

TagValues == { None, Some(T_past), Some(T_error) }

\* forms rows: the form "lauf", owned by the headword with id 2
FormRowValues ==
    { [dictionary_id |-> 2, form |-> W_lauf, normalized_form |-> W_lauf, tags |-> t] :
        t \in TagValues }

QueryWords == { W_lauf, W_Lauf, W_laufen, W_empty, W_blank }
BatchWords == { W_lauf, W_blank }
StoreLangs == { S_de, S_xx }
QueryLangs == { S_de, S_sa, S_xx }

FaultSets == { f \in SUBSET FaultNames : Cardinality(f) <= MaxFaults }

Entry(name, isDir, files) == [name |-> name, isDir |-> isDir, files |-> files]

\* root layouts of the resolution specifications: no root, a root without a
\* store, and a store installed for "de" under either directory name
ResolveLayouts ==
    { <<FALSE, <<>> >>,
      <<TRUE,  << Entry(S_de, TRUE, <<S_readme>>) >> >>,
      <<TRUE,  << Entry(S_de, TRUE, << S_de \o S_dict_db_suffix >>) >> >>,
      <<TRUE,  << Entry(S_readme, FALSE, <<>>),
                  Entry(S_German, TRUE, << S_readme, S_dictionary_db >>) >> >> }

\* root layouts of the registry specification
FileNames == { S_de \o S_dict_db_suffix, to_lowercase(S_German) \o S_dict_db_suffix,
               S_dictionary_db, S_dict_db }

RootEntries ==
    { Entry(n, TRUE, fs) : n \in {S_de, S_German}, fs \in DistinctSeqsUpTo(FileNames, MaxFiles) }
    \cup { Entry(S_readme, FALSE, <<>>) }

RootLayouts ==
    { q \in SeqsUpTo(RootEntries, MaxDirs) :
        \A i, j \in 1..Len(q) : i # j => q[i].name # q[j].name }

Idle == [op |-> "idle"]

\* The state after start-up: some root layout; the installed store, if any,
\* holds some rows.
Init ==
    /\ \E lay \in ResolveLayouts : rootExists = lay[1] /\ dirs = lay[2]
    /\ dictionary \in SeqsUpTo(DictRowValues, MaxDictRows)
    /\ forms \in SeqsUpTo(FormRowValues, MaxFormRows)
    /\ (~get_connection(S_de).ok => dictionary = <<>> /\ forms = <<>>)
    /\ senses = Len(dictionary)
    /\ partial = {}
    /\ exeRoot = TRUE
    /\ AppAtRest
    /\ call = Idle

\* Start-up of the command specification: the stores of Init with at most one
\* row per table.
InitCmd ==
    /\ Init
    /\ Len(dictionary) <= 1
    /\ Len(forms) <= 1

\* Start-up of the registry specification: any root layout; every store file
\* holds the same two headwords and one form.
InitFs ==
    /\ rootExists \in BOOLEAN
    /\ dirs \in RootLayouts
    /\ (~rootExists => dirs = <<>>)
    /\ dictionary = << [id |-> 1, word |-> W_lauf, normalized_word |-> W_lauf],
                       [id |-> 2, word |-> W_laufen, normalized_word |-> W_laufen] >>
    /\ forms = << [dictionary_id |-> 2, form |-> W_lauf, normalized_form |-> W_lauf,
                   tags |-> Some(T_past)] >>
    /\ senses = 2
    /\ partial = {}
    /\ exeRoot = TRUE
    /\ AppAtRest
    /\ call = Idle

(***************************************************************************)
(* Operations.  The engine never writes a store: every request leaves the  *)
(* filesystem and the tables as they are.  A request is served from the    *)
(* idle state and its response is held in `call` until it is returned.     *)
(***************************************************************************)
DbSearch(word, lang, faults) ==
    /\ call = Idle
    /\ call' = [op |-> "db_search", word |-> word, lang |-> lang, faults |-> faults,
                res |-> db_search_dictionary(word, lang, faults)]
    /\ UNCHANGED <<rootExists, dirs, dictionary, forms, senses, partial, exeRoot, appVars>>

CmdSearch(word, lang, faults) ==
    /\ call = Idle
    /\ call' = [op |-> "cmd_search", word |-> word, lang |-> lang, faults |-> faults,
                res |-> cmd_search_dictionary(word, lang, faults)]
    /\ UNCHANGED <<rootExists, dirs, dictionary, forms, senses, partial, exeRoot, appVars>>

BatchQuery(words, lang, faults) ==
    /\ call = Idle
    /\ call' = [op |-> "batch_query", words |-> words, lang |-> lang, faults |-> faults,
                res |-> batch_query_dictionary(words, lang, faults)]
    /\ UNCHANGED <<rootExists, dirs, dictionary, forms, senses, partial, exeRoot, appVars>>

ListLanguages ==
    /\ call = Idle
    /\ call' = [op |-> "list_languages", res |-> get_available_languages]
    /\ UNCHANGED <<rootExists, dirs, dictionary, forms, senses, partial, exeRoot, appVars>>

\* the response is handed to the caller; nothing of the request is kept
Return ==
    /\ call # Idle
    /\ call' = Idle
    /\ UNCHANGED <<rootExists, dirs, dictionary, forms, senses, partial, exeRoot, appVars>>

\* db::search_dictionary on a healthy store
Next ==
    \/ \E w \in QueryWords, l \in StoreLangs : DbSearch(w, l, {})
    \/ Return

Spec == Init /\ [][Next]_vars

\* db::search_dictionary when storage calls may fail
NextFault ==
    \/ \E w \in QueryWords, l \in StoreLangs, f \in FaultSets : DbSearch(w, l, f)
    \/ Return

SpecFault == Init /\ [][NextFault]_vars

\* the three paths that resolve a word
NextCmd ==
    \/ \E w \in QueryWords, l \in StoreLangs : DbSearch(w, l, {})
    \/ \E w \in QueryWords, l \in QueryLangs : CmdSearch(w, l, {})
    \/ \E ws \in SeqsUpTo(BatchWords, MaxBatch), l \in QueryLangs : BatchQuery(ws, l, {})
    \/ Return

SpecCmd == InitCmd /\ [][NextCmd]_vars

\* the registry: listing and lookups over any root layout
NextFs ==
    \/ ListLanguages
    \/ \E w \in {W_lauf, W_Lauf}, l \in QueryLangs : DbSearch(w, l, {})
    \/ \E w \in {W_lauf, W_Lauf}, l \in QueryLangs : CmdSearch(w, l, {})
    \/ Return

SpecFs == InitFs /\ [][NextFs]_vars

(***************************************************************************)
(* Vocabulary of the properties.                                           *)
(***************************************************************************)
\* the response in `call` is that of db::search_dictionary on an opened store
DbAnswered == call.op = "db_search" /\ call.res.opened

HeadwordRows(word) == { i \in 1..Len(dictionary) : dictionary[i].word = word }

NormalizedRows(word) ==
    { i \in 1..Len(dictionary) : dictionary[i].normalized_word = normalize_word(word) }

\* the tags of a forms row carry an error marker
HasErrorMarker(row) == IsSome(row.tags) /\ Contains(Unwrap(row.tags), T_error_lit)

\* forms rows without error marker whose form is the word
GoodFormRows(word) ==
    { i \in 1..Len(forms) : forms[i].form = word /\ ~HasErrorMarker(forms[i]) }

\* forms rows whose form or normalized form matches the word
MatchingFormRows(word) ==
    { i \in 1..Len(forms) :
        forms[i].form = word \/ forms[i].normalized_form = normalize_word(word) }

FormsConsulted(res) == res.stages \cap {"form", "normform"} # {}

Owned(id) == { i \in 1..Len(dictionary) : dictionary[i].id = id }

(***************************************************************************)
(* C1  Headword precedence: when the headword table has a row whose word   *)
(* is exactly the queried word, db::search_dictionary returns the entry of *)
(* that headword (the first such row), every returned entry has            *)
(* inflections = None, and the forms table is not consulted, whatever      *)
(* forms rows the store holds.                                             *)
(***************************************************************************)
C1_HeadwordPrecedence ==
    (DbAnswered /\ HeadwordRows(call.word) # {}) =>
        LET h == dictionary[Min(HeadwordRows(call.word))]
            es == call.res.entries
        IN  /\ call.res.ok
            /\ \E k \in 1..Len(es) :
                  es[k].text = call.word /\ es[k].entry_id = Some(ToString(h.id))
            /\ \A k \in 1..Len(es) :
                  es[k].inflections = None /\ es[k].entry_id = Some(ToString(h.id))
            /\ ~FormsConsulted(call.res)

\* the headword "lauf" is queried while a usable form "lauf" belongs to
\* another headword, and the "lauf" entry came back
C1_Witness ==
    /\ DbAnswered /\ call.word = W_lauf
    /\ HeadwordRows(W_lauf) # {}
    /\ \E i \in GoodFormRows(W_lauf) :
          /\ forms[i].dictionary_id # dictionary[Min(HeadwordRows(W_lauf))].id
          /\ \E j \in Owned(forms[i].dictionary_id) : dictionary[j].word = W_laufen
    /\ Len(call.res.entries) = 1
    /\ call.res.entries[1].text = W_lauf

(***************************************************************************)
(* C2  Inflection fallback: when no headword row matches the word (exact   *)
(* or normalized) and the forms table has a row without error marker whose *)
(* form is the word, owned by an existing headword, db::search_dictionary  *)
(* returns the entry of that owner with exactly one Inflection record      *)
(* {form = the word, tags = the row's tags (None when NULL),               *)
(* normalized_form = None}.  The row is the first such row in storage      *)
(* order, the one LIMIT 1 yields.                                          *)
(***************************************************************************)
C2_InflectionFallback ==
    (/\ DbAnswered
     /\ HeadwordRows(call.word) = {} /\ NormalizedRows(call.word) = {}
     /\ GoodFormRows(call.word) # {}
     /\ Owned(forms[Min(GoodFormRows(call.word))].dictionary_id) # {}) =>
        LET r  == forms[Min(GoodFormRows(call.word))]
            es == call.res.entries
        IN  /\ call.res.ok
            /\ es # <<>>
            /\ \A k \in 1..Len(es) :
                  /\ es[k].entry_id = Some(ToString(r.dictionary_id))
                  /\ \E j \in Owned(r.dictionary_id) : dictionary[j].word = es[k].text
                  /\ es[k].inflections =
                        Some(<< [form |-> call.word, tags |-> r.tags,
                                 normalized_form |-> None] >>)

\* "lauf" is no headword, a form "lauf" tagged "past" belongs to "laufen",
\* and the "laufen" entry came back with the inflection record
C2_Witness ==
    /\ DbAnswered /\ call.word = W_lauf
    /\ HeadwordRows(W_lauf) = {} /\ NormalizedRows(W_lauf) = {}
    /\ GoodFormRows(W_lauf) # {}
    /\ forms[Min(GoodFormRows(W_lauf))].tags = Some(T_past)
    /\ Len(call.res.entries) = 1
    /\ call.res.entries[1].text = W_laufen
    /\ call.res.entries[1].inflections =
          Some(<< [form |-> W_lauf, tags |-> Some(T_past), normalized_form |-> None] >>)

(***************************************************************************)
(* C3  Error-tag exclusion: the forms row through which                    *)
(* db::search_dictionary reaches a headword (exact-form or normalized-form *)
(* stage) never carries an error marker; and when no headword matches and  *)
(* every forms row matching the word carries an error marker, the result   *)
(* is the empty list.                                                      *)
(***************************************************************************)
C3_ErrorTagExclusion ==
    DbAnswered =>
        /\ IsSome(call.res.via) => ~HasErrorMarker(Unwrap(call.res.via))
        /\ (/\ HeadwordRows(call.word) = {} /\ NormalizedRows(call.word) = {}
            /\ \A i \in MatchingFormRows(call.word) : HasErrorMarker(forms[i]))
           => (call.res.ok /\ call.res.entries = <<>>)

\* the only forms rows matching the queried word are error-tagged, the owner
\* exists, no headword matches, and the forms table was searched in vain
C3_Witness ==
    /\ DbAnswered /\ call.word \in {W_lauf, W_Lauf}
    /\ HeadwordRows(call.word) = {} /\ NormalizedRows(call.word) = {}
    /\ MatchingFormRows(call.word) # {}
    /\ \A i \in MatchingFormRows(call.word) :
          HasErrorMarker(forms[i]) /\ Owned(forms[i].dictionary_id) # {}
    /\ call.res.stages = {"exact", "normalized", "form", "normform"}
    /\ call.res.entries = <<>>

(***************************************************************************)
(* C4  (as claimed) every entry returned by db::search_dictionary carries  *)
(* an Inflection block if and only if its headword text differs from the   *)
(* queried word.                                                           *)
(***************************************************************************)
C4_InflectionIffDiffers ==
    DbAnswered =>
        \A k \in 1..Len(call.res.entries) :
            (call.res.entries[k].inflections # None)
                <=> (call.res.entries[k].text # call.word)

(***************************************************************************)
(* C4  (amended) every entry returned by db::search_dictionary carries an  *)
(* Inflection block if and only if the headword was reached through the    *)
(* forms table and its text differs from the queried word; an entry        *)
(* reached by a headword match, exact or normalized, carries none.         *)
(***************************************************************************)
C4_InflectionIffViaForms ==
    DbAnswered =>
        \A k \in 1..Len(call.res.entries) :
            (call.res.entries[k].inflections # None)
                <=> (IsSome(call.res.via) /\ call.res.entries[k].text # call.word)

\* an entry reached through the forms table, with its Inflection block
C4_Witness ==
    /\ DbAnswered
    /\ IsSome(call.res.via)
    /\ call.res.entries # <<>>
    /\ call.res.entries[1].text # call.word
    /\ call.res.entries[1].inflections # None

(***************************************************************************)
(* C5  Normalized headword match: when no headword row has the queried     *)
(* word but some row has normalized_word = normalize_word(word),           *)
(* db::search_dictionary returns that headword's entry (the first such     *)
(* row) and does not consult the forms table.                              *)
(***************************************************************************)
C5_NormalizedHeadword ==
    (DbAnswered /\ HeadwordRows(call.word) = {} /\ NormalizedRows(call.word) # {}) =>
        LET h == dictionary[Min(NormalizedRows(call.word))]
            es == call.res.entries
        IN  /\ call.res.ok
            /\ \E k \in 1..Len(es) :
                  es[k].text = h.word /\ es[k].entry_id = Some(ToString(h.id))
            /\ \A k \in 1..Len(es) : es[k].entry_id = Some(ToString(h.id))
            /\ "normalized" \in call.res.stages
            /\ ~FormsConsulted(call.res)

\* "Lauf" is queried, only the headword "lauf" folds to it, a form row would
\* match too, and the "lauf" entry came back
C5_Witness ==
    /\ DbAnswered /\ call.word = W_Lauf
    /\ HeadwordRows(W_Lauf) = {} /\ NormalizedRows(W_Lauf) # {}
    /\ MatchingFormRows(W_Lauf) # {}
    /\ Len(call.res.entries) = 1
    /\ call.res.entries[1].text = W_lauf

(***************************************************************************)
(* C10  In every list db::search_dictionary returns no two entries have    *)
(* the same text, and every text of the rows fetched for the resolved id   *)
(* appears in the list.                                                    *)
(***************************************************************************)
C10_UniqueTexts ==
    (DbAnswered /\ call.res.ok) =>
        LET es == call.res.entries
        IN  /\ \A i, j \in 1..Len(es) : i # j => es[i].text # es[j].text
            /\ \A k \in 1..Len(es) :
                  \A r \in Owned(CHOOSE id \in DictIds : es[k].entry_id = Some(ToString(id))) :
                      \E m \in 1..Len(es) : es[m].text = dictionary[r].word

\* two rows with the same id and the same word were fetched, one entry returned
C10_Witness ==
    /\ DbAnswered /\ call.res.ok
    /\ Len(call.res.entries) = 1
    /\ \E i, j \in 1..Len(dictionary) :
          /\ i # j
          /\ dictionary[i].id = dictionary[j].id
          /\ dictionary[i].word = dictionary[j].word
          /\ call.res.entries[1].text = dictionary[i].word
          /\ call.res.entries[1].entry_id = Some(ToString(dictionary[i].id))

(***************************************************************************)
(* C6  (as claimed) once the store is open, no storage error in a          *)
(* sub-query of db::search_dictionary makes the call return Err: the only  *)
(* Err outcome is failure to open the store.                               *)
(***************************************************************************)
C6_OnlyOpenFails ==
    (call.op = "db_search" /\ ~call.res.ok) => ~call.res.opened

(***************************************************************************)
(* C7  (as claimed) an empty or whitespace-only word yields no entry and    *)
(* the store is neither opened nor queried for it, on each path:           *)
(* the search_dictionary command, db::search_dictionary and every word of  *)
(* batch_query_dictionary.                                                 *)
(***************************************************************************)
C7_BlankTouchesNoStorage ==
    /\ (call.op = "cmd_search" /\ trim(call.word) = <<>>) =>
          /\ call.res.success /\ call.res.entries = <<>>
          /\ ~call.res.opened /\ call.res.stages = {}
    /\ (call.op = "db_search" /\ trim(call.word) = <<>>) =>
          /\ call.res.entries = <<>>
          /\ ~call.res.opened /\ call.res.stages = {}
    /\ call.op = "batch_query" =>
          \A i \in 1..Len(call.res.lookups) :
              trim(call.words[i]) = <<>> =>
                  /\ call.words[i] \notin DOMAIN call.res.results
                  /\ ~call.res.lookups[i].opened
                  /\ call.res.lookups[i].stages = {}

(***************************************************************************)
(* Registry vocabulary: a language code has no installed store when no     *)
(* directory of the root that stands for the code (by its lower-cased name *)
(* or through the name/code table) holds a file with a store file name.    *)
(***************************************************************************)
StandsFor(dir_name, code) ==
    \/ dir_name = code
    \/ \E k \in 1..Len(name_to_code) : name_to_code[k] = <<dir_name, code>>

StoreFileNames(dir_name, code) ==
    { code \o S_dict_db_suffix, code \o S_dict_sqlite_suffix, dir_name \o S_dict_db_suffix,
      S_dictionary_db, S_dict_db, S_dict_sqlite }

NoStore(code) ==
    \A i \in 1..Len(dirs) :
        (dirs[i].isDir /\ StandsFor(to_lowercase(dirs[i].name), code)) =>
            \A j \in 1..Len(dirs[i].files) :
                dirs[i].files[j] \notin StoreFileNames(to_lowercase(dirs[i].name), code)

Listed(code) ==
    \E k \in 1..Len(call.res) : call.res[k].code = code

(***************************************************************************)
(* C8  (as claimed) for every language code with no installed store:       *)
(* get_available_languages lists no record with that code,                 *)
(* db::search_dictionary of a non-empty word returns Err, and the          *)
(* search_dictionary command reports success = false with no entries.      *)
(***************************************************************************)
C8_NoStoreNotFound ==
    \A c \in QueryLangs : NoStore(c) =>
        /\ call.op = "list_languages" => ~Listed(c)
        /\ (call.op = "db_search" /\ call.lang = c /\ trim(call.word) # <<>>) =>
              ~call.res.ok
        /\ (call.op = "cmd_search" /\ call.lang = c /\ trim(call.word) # <<>>) =>
              (~call.res.success /\ call.res.entries = <<>>)

(***************************************************************************)
(* C8  (amended) for every language code with no installed store:          *)
(* get_available_languages lists no record with that code and              *)
(* db::search_dictionary of a non-empty word returns Err; the              *)
(* search_dictionary command reports success = false with no entries for   *)
(* every such code other than "sa", and for "sa" it reports success = true *)
(* with no entries and source "sanskrit-only" without looking for a store. *)
(***************************************************************************)
C8_NoStoreNotFoundExceptSanskrit ==
    \A c \in QueryLangs : NoStore(c) =>
        /\ call.op = "list_languages" => ~Listed(c)
        /\ (call.op = "db_search" /\ call.lang = c /\ trim(call.word) # <<>>) =>
              (~call.res.ok /\ ~call.res.opened)
        /\ (call.op = "cmd_search" /\ call.lang = c /\ trim(call.word) # <<>>) =>
              IF c = S_sa
              THEN /\ call.res.success /\ call.res.entries = <<>>
                   /\ call.res.source = "sanskrit-only" /\ ~call.res.opened
              ELSE /\ ~call.res.success /\ call.res.entries = <<>>
                   /\ call.res.source = "error"

\* a directory for "de" exists and holds a file, yet no store file for "de",
\* and the command answered the lookup with a failure
C8_Witness ==
    /\ call.op = "cmd_search" /\ call.lang = S_de
    /\ NoStore(S_de)
    /\ \E i \in 1..Len(dirs) :
          dirs[i].isDir /\ StandsFor(to_lowercase(dirs[i].name), S_de) /\ dirs[i].files # <<>>
    /\ ~call.res.success
    /\ call.res.source = "error"

(***************************************************************************)
(* The normalizer as an operation of its own.                              *)
(***************************************************************************)
MaxWordLen == 3

W_Mueller_in == <<"M","ü","l","l","e","r">>
W_Strasse_in == <<"S","t","r","a","ß","e">>
W_abc_in == <<"a","-","b","/","c">>

\* characters the words of the normalizer specification are built from
NormChars == {"a", "B", "ä", "Ü", "ß", "ẞ", "-", "/"}

NormWords ==
    SeqsUpTo(NormChars, MaxWordLen) \cup {W_Mueller_in, W_Strasse_in, W_abc_in}

InitNorm ==
    /\ rootExists = FALSE
    /\ dirs = <<>>
    /\ dictionary = <<>>
    /\ forms = <<>>
    /\ senses = 0
    /\ partial = {}
    /\ exeRoot = TRUE
    /\ AppAtRest
    /\ call = Idle

Normalize(word) ==
    /\ call = Idle
    /\ call' = [op |-> "normalize", word |-> word, res |-> normalize_word(word)]
    /\ UNCHANGED <<rootExists, dirs, dictionary, forms, senses, partial, exeRoot, appVars>>

NextNorm ==
    \/ \E w \in NormWords : Normalize(w)
    \/ Return

SpecNorm == InitNorm /\ [][NextNorm]_vars

\* the reference, character by character: what one character becomes
RefChar(c) ==
    IF c \in {"ä", "Ä"} THEN <<"a","e">>
    ELSE IF c \in {"ö", "Ö"} THEN <<"o","e">>
    ELSE IF c \in {"ü", "Ü"} THEN <<"u","e">>
    ELSE IF c \in {"ß", "ẞ"} THEN <<"s","s">>
    ELSE IF c \in {"-", "/"} THEN <<>>
    ELSE <<LowerChar(c)>>

RECURSIVE Reference(_)
Reference(word) ==
    IF word = <<>> THEN <<>> ELSE RefChar(Head(word)) \o Reference(Tail(word))

(***************************************************************************)
(* C11  normalize_word equals the reference on every word: ä/ö/ü and their *)
(* capitals become the base vowel followed by "e", ß and ẞ become "ss",    *)
(* every "-" and "/" is removed, the rest is lower-cased and otherwise     *)
(* unaltered.  In particular "" gives "", "Müller" gives "mueller",        *)
(* "Straße" gives "strasse" and "a-b/c" gives "abc".                       *)
(***************************************************************************)
C11_NormalizeReference ==
    call.op = "normalize" =>
        /\ call.res = Reference(call.word)
        /\ (call.word = <<>> => call.res = <<>>)
        /\ (call.word = W_Mueller_in => call.res = <<"m","u","e","l","l","e","r">>)
        /\ (call.word = W_Strasse_in => call.res = <<"s","t","r","a","s","s","e">>)
        /\ (call.word = W_abc_in => call.res = <<"a","b","c">>)

\* a word with a capital umlaut, a capital sharp s and a separator was folded
C11_Witness ==
    /\ call.op = "normalize"
    /\ call.word = <<"Ü", "-", "ẞ">>
    /\ call.res = <<"u","e","s","s">>

(***************************************************************************)
(* db.rs: get_language_stats, and commands/dictionary.rs:                  *)
(* get_dictionary_stats.  `faults` names the storage calls that fail:      *)
(* "open" and the three count queries.                                     *)
(***************************************************************************)
MaxSenses == 2

StatFaultNames == {"open", "count_words", "count_senses", "count_forms"}

\* A stats routine in which a failing count query fails the whole call.
get_language_stats_propagate(lang_code, faults) ==
    LET conn == get_connection(lang_code)
    IN  IF ~conn.ok THEN [ok |-> FALSE, err |-> conn.err, opened |-> FALSE, stats |-> None]
        ELSE IF "open" \in faults
        THEN [ok |-> FALSE, err |-> "OpenFailed", opened |-> FALSE, stats |-> None]
        ELSE IF faults \cap {"count_words", "count_senses", "count_forms"} # {}
        THEN [ok |-> FALSE, err |-> "Sql", opened |-> TRUE, stats |-> None]
        ELSE [ok |-> TRUE, err |-> "", opened |-> TRUE,
              stats |-> Some([word_count |-> CountWords, sense_count |-> senses,
                              form_count |-> CountForms, synonym_count |-> 0])]

\* db.rs get_language_stats
get_language_stats(lang_code, faults) ==
    LET conn == get_connection(lang_code)
    IN  IF ~conn.ok THEN [ok |-> FALSE, err |-> conn.err, opened |-> FALSE, stats |-> None]
        ELSE IF "open" \in faults
        THEN [ok |-> FALSE, err |-> "OpenFailed", opened |-> FALSE, stats |-> None]
        ELSE [ok |-> TRUE, err |-> "", opened |-> TRUE,
              stats |-> Some(
                \* query_row(..).unwrap_or(0), three times
                [word_count  |-> IF "count_words" \in faults THEN 0 ELSE CountWords,
                 sense_count |-> IF "count_senses" \in faults THEN 0 ELSE senses,
                 form_count  |-> IF "count_forms" \in faults THEN 0 ELSE CountForms,
                 synonym_count |-> 0])]

\* commands/dictionary.rs get_dictionary_stats
get_dictionary_stats(language, faults) ==
    LET r == get_language_stats(language, faults)
    IN  IF r.ok THEN [success |-> TRUE, stats |-> r.stats, error |-> None]
        ELSE [success |-> FALSE, stats |-> None, error |-> Some(r.err)]

StatFaultSets == { f \in SUBSET StatFaultNames : Cardinality(f) <= MaxFaults }

\* Start-up of the statistics specification: the layouts of Init; an
\* installed store holds some headwords, forms and senses.
InitStats ==
    /\ \E lay \in ResolveLayouts : rootExists = lay[1] /\ dirs = lay[2]
    /\ dictionary \in SeqsUpTo({ r \in DictRowValues : r.id = 1 }, MaxDictRows)
    /\ forms \in SeqsUpTo({ r \in FormRowValues : r.tags = None }, MaxFormRows)
    /\ senses \in 0..MaxSenses
    /\ (~get_connection(S_de).ok => dictionary = <<>> /\ forms = <<>> /\ senses = 0)
    /\ partial = {}
    /\ exeRoot = TRUE
    /\ AppAtRest
    /\ call = Idle

DbStats(lang, faults) ==
    /\ call = Idle
    /\ call' = [op |-> "db_stats", lang |-> lang, faults |-> faults,
                res |-> get_language_stats(lang, faults)]
    /\ UNCHANGED <<rootExists, dirs, dictionary, forms, senses, partial, exeRoot, appVars>>

CmdStats(lang, faults) ==
    /\ call = Idle
    /\ call' = [op |-> "cmd_stats", lang |-> lang, faults |-> faults,
                res |-> get_dictionary_stats(lang, faults)]
    /\ UNCHANGED <<rootExists, dirs, dictionary, forms, senses, partial, exeRoot, appVars>>

NextStats ==
    \/ \E l \in StoreLangs, f \in StatFaultSets : DbStats(l, f)
    \/ \E l \in StoreLangs, f \in StatFaultSets : CmdStats(l, f)
    \/ Return

SpecStats == InitStats /\ [][NextStats]_vars

ZeroStats == [word_count |-> 0, sense_count |-> 0, form_count |-> 0, synonym_count |-> 0]

(***************************************************************************)
(* C12  (as claimed) statistics for a language code for which no store     *)
(* can be resolved are all-zero counts and not an error, from              *)
(* db::get_language_stats and from the get_dictionary_stats command.       *)
(***************************************************************************)
C12_UnregisteredStatsZero ==
    /\ (call.op = "db_stats" /\ ~get_connection(call.lang).ok) =>
          (call.res.ok /\ call.res.stats = Some(ZeroStats))
    /\ (call.op = "cmd_stats" /\ ~get_connection(call.lang).ok) =>
          (call.res.success /\ call.res.stats = Some(ZeroStats))

(***************************************************************************)
(* C13  On a store that db::get_language_stats opened, the call returns Ok *)
(* and each of the three counts is 0 if its query failed and its true      *)
(* value otherwise (distinct headwords, sense rows, form rows), whatever   *)
(* happened to the other two queries.                                      *)
(***************************************************************************)
C13_IndependentCounts ==
    (call.op = "db_stats" /\ get_connection(call.lang).ok /\ "open" \notin call.faults) =>
        /\ call.res.ok
        /\ LET st == Unwrap(call.res.stats)
           IN  /\ st.word_count = IF "count_words" \in call.faults THEN 0
                     ELSE Cardinality({ dictionary[i].word : i \in 1..Len(dictionary) })
               /\ st.sense_count = IF "count_senses" \in call.faults THEN 0 ELSE senses
               /\ st.form_count = IF "count_forms" \in call.faults THEN 0 ELSE Len(forms)

\* the senses query failed on a store with headwords, forms and senses; the
\* sense count is 0 and the other two counts are not
C13_Witness ==
    /\ call.op = "db_stats"
    /\ call.faults = {"count_senses"}
    /\ senses > 0
    /\ call.res.ok
    /\ Unwrap(call.res.stats).sense_count = 0
    /\ Unwrap(call.res.stats).word_count = 2
    /\ Unwrap(call.res.stats).form_count > 0

(***************************************************************************)
(* db.rs: search_suggestions, and commands/dictionary.rs:                  *)
(* get_dictionary_suggestions.  Headword rows carry a `pos` column here.   *)
(***************************************************************************)
MaxLimit == 2

\* SQL: s LIKE pattern, without ESCAPE: "%" stands for any run of characters,
\* "_" for any one character, letters A-Z match in either case
RECURSIVE Like(_, _)
Like(pattern, s) ==
    IF pattern = <<>> THEN s = <<>>
    ELSE IF Head(pattern) = "%"
         THEN Like(Tail(pattern), s) \/ (s # <<>> /\ Like(pattern, Tail(s)))
    ELSE IF s = <<>> THEN FALSE
    ELSE IF Head(pattern) = "_" THEN Like(Tail(pattern), Tail(s))
    ELSE /\ AsciiLowerChar(Head(pattern)) = AsciiLowerChar(Head(s))
         /\ Like(Tail(pattern), Tail(s))

\* the characters of the suggestion scenarios in code point order, which is
\* the order of the BINARY collation
CodeOrder == <<"%", "L", "_", "a", "e", "f", "l", "n", "u">>

CharCode(c) == CHOOSE i \in 1..Len(CodeOrder) : CodeOrder[i] = c

\* a <= b in the BINARY collation
RECURSIVE StrLeq(_, _)
StrLeq(a, b) ==
    IF a = <<>> THEN TRUE
    ELSE IF b = <<>> THEN FALSE
    ELSE IF Head(a) = Head(b) THEN StrLeq(Tail(a), Tail(b))
    ELSE CharCode(Head(a)) < CharCode(Head(b))

\* SELECT DISTINCT word, pos FROM dictionary WHERE word LIKE ?1
SuggestRows(search_pattern) ==
    { <<dictionary[i].word, dictionary[i].pos>> :
        i \in { j \in 1..Len(dictionary) : Like(search_pattern, dictionary[j].word) } }

\* ORDER BY word: the orders in which the rows may come; rows with the same
\* word come in any order
SuggestOrders(rows) ==
    { q \in [1..Cardinality(rows) -> rows] :
        /\ \A i, j \in DOMAIN q : i # j => q[i] # q[j]
        /\ \A i, j \in DOMAIN q : i < j => StrLeq(q[i][1], q[j][1]) }

\* A cap that lets every row through.
SuggestCapNone(q, limit) == q

\* LIMIT ?2
SuggestCap(q, limit) == SubSeq(q, 1, IF limit < Len(q) THEN limit ELSE Len(q))

\* db.rs search_suggestions: the lists it may return
search_suggestions(prefix, lang_code, limit) ==
    IF ~get_connection(lang_code).ok
    THEN { [ok |-> FALSE, list |-> <<>>] }
    ELSE LET search_pattern == prefix \o <<"%">>
         IN  { [ok |-> TRUE, list |-> SuggestCap(q, limit)] :
                 q \in SuggestOrders(SuggestRows(search_pattern)) }

\* commands/dictionary.rs get_dictionary_suggestions: the answers it may give
get_dictionary_suggestions(prefix, language) ==
    { IF r.ok THEN [suggestions |-> r.list, source |-> "local"]
      ELSE [suggestions |-> <<>>, source |-> "error"] :
        r \in search_suggestions(prefix, language, 10) }

S_noun == <<"n","o","u","n">>
S_verb == <<"v","e","r","b">>

SuggestRowValues ==
    { [id |-> 1, word |-> w, normalized_word |-> normalize_word(w), pos |-> Some(p)] :
        w \in {W_lauf, W_Lauf, W_laufen}, p \in {S_noun, S_verb} }

Prefixes == { <<>>, <<"l">>, <<"L">>, W_lauf, <<"_","a">>, <<"%","f">> }

\* Start-up of the suggestion specification: the layouts of Init; an
\* installed store holds some headword rows.
InitSuggest ==
    /\ \E lay \in ResolveLayouts : rootExists = lay[1] /\ dirs = lay[2]
    /\ dictionary \in SeqsUpTo(SuggestRowValues, MaxDictRows)
    /\ (~get_connection(S_de).ok => dictionary = <<>>)
    /\ forms = <<>>
    /\ senses = 0
    /\ partial = {}
    /\ exeRoot = TRUE
    /\ AppAtRest
    /\ call = Idle

DbSuggest(prefix, lang, limit) ==
    /\ call = Idle
    /\ \E r \in search_suggestions(prefix, lang, limit) :
          call' = [op |-> "db_suggest", prefix |-> prefix, lang |-> lang,
                   limit |-> limit, res |-> r]
    /\ UNCHANGED <<rootExists, dirs, dictionary, forms, senses, partial, exeRoot, appVars>>

CmdSuggest(prefix, lang) ==
    /\ call = Idle
    /\ \E r \in get_dictionary_suggestions(prefix, lang) :
          call' = [op |-> "cmd_suggest", prefix |-> prefix, lang |-> lang, res |-> r]
    /\ UNCHANGED <<rootExists, dirs, dictionary, forms, senses, partial, exeRoot, appVars>>

NextSuggest ==
    \/ \E p \in Prefixes, l \in StoreLangs, n \in 0..MaxLimit : DbSuggest(p, l, n)
    \/ \E p \in Prefixes, l \in StoreLangs : CmdSuggest(p, l)
    \/ Return

SpecSuggest == InitSuggest /\ [][NextSuggest]_vars

\* word starts with prefix, character for character
StartsWith(word, prefix) ==
    Len(prefix) <= Len(word) /\ SubSeq(word, 1, Len(prefix)) = prefix

DbSuggested == call.op = "db_suggest" /\ call.res.ok

(***************************************************************************)
(* C14  (as claimed) every word db::search_suggestions returns starts with *)
(* the prefix, compared case-sensitively and with the prefix taken         *)
(* literally.                                                              *)
(***************************************************************************)
C14_StartsWithPrefix ==
    DbSuggested =>
        \A k \in 1..Len(call.res.list) : StartsWith(call.res.list[k][1], call.prefix)

(***************************************************************************)
(* C15  (as claimed) no two suggestions db::search_suggestions returns     *)
(* have the same word, and for the empty prefix the returned words are the *)
(* first `limit` distinct headwords of the store in lexicographic order.   *)
(***************************************************************************)
C15_DistinctWords ==
    DbSuggested =>
        LET l == call.res.list
            words == { dictionary[i].word : i \in 1..Len(dictionary) }
        IN  /\ \A i, j \in 1..Len(l) : i # j => l[i][1] # l[j][1]
            /\ call.prefix = <<>> =>
                  /\ Len(l) = (IF call.limit < Cardinality(words)
                               THEN call.limit ELSE Cardinality(words))
                  /\ \A k \in 1..Len(l) : l[k][1] \in words
                  /\ \A w \in words :
                        (\A k \in 1..Len(l) : l[k][1] # w) =>
                            \A k \in 1..Len(l) : StrLeq(l[k][1], w)

(***************************************************************************)
(* C16  db::search_suggestions never returns more than `limit` results,    *)
(* and the returned words are in ascending order of the BINARY collation   *)
(* (no word is followed by a smaller one).  The command asks for at most   *)
(* ten and returns at most ten.                                            *)
(***************************************************************************)
C16_CappedAndSorted ==
    /\ DbSuggested =>
          /\ Len(call.res.list) <= call.limit
          /\ \A i, j \in 1..Len(call.res.list) :
                i < j => StrLeq(call.res.list[i][1], call.res.list[j][1])
    /\ call.op = "cmd_suggest" =>
          /\ Len(call.res.suggestions) <= 10
          /\ \A i, j \in 1..Len(call.res.suggestions) :
                i < j => StrLeq(call.res.suggestions[i][1], call.res.suggestions[j][1])

\* two rows match, stored in descending order; one was asked for and the
\* smaller one came back
C16_Witness ==
    /\ DbSuggested
    /\ call.limit = 1
    /\ Len(dictionary) = 2
    /\ dictionary[1].word = W_laufen /\ dictionary[2].word = W_lauf
    /\ Like(call.prefix \o <<"%">>, W_laufen) /\ Like(call.prefix \o <<"%">>, W_lauf)
    /\ Len(call.res.list) = 1
    /\ call.res.list[1][1] = W_lauf

(***************************************************************************)
(* C17  (as claimed) batch_query_dictionary(ws, l) maps each word w of ws  *)
(* to the entry list the single-word search_dictionary(w, l) returns when  *)
(* that list is non-empty, omits w when it is empty, and reports failure   *)
(* to open the store the way the single-word resolution does: when the     *)
(* single-word search reports success = false, so does the batch.          *)
(***************************************************************************)
C17_BatchEqualsSingle ==
    call.op = "batch_query" =>
        \A i \in 1..Len(call.words) :
            LET w == call.words[i]
                single == cmd_search_dictionary(w, call.lang, call.faults)
            IN  /\ single.entries # <<>> =>
                      (w \in DOMAIN call.res.results /\ call.res.results[w] = single.entries)
                /\ single.entries = <<>> => w \notin DOMAIN call.res.results
                /\ ~single.success => ~call.res.success

(***************************************************************************)
(* commands/dictionary.rs: upload_dictionary_file.  The command works on   *)
(* <exe directory>/dict, which is also the first place db.rs get_dict_dir  *)
(* looks at.  `fault` names the one filesystem or process step that fails  *)
(* in a run ("none": no step fails); a copy or a conversion may fail       *)
(* before it wrote anything or after it wrote a part of the target file.   *)
(***************************************************************************)
\* str::len: the length in bytes of the UTF-8 text
CharBytes(c) ==
    IF c \in {"ä", "ö", "ü", "Ä", "Ö", "Ü", "ß"} THEN 2
    ELSE IF c = "ẞ" THEN 3
    ELSE 1

RECURSIVE Utf8Len(_)
Utf8Len(s) == IF s = <<>> THEN 0 ELSE CharBytes(Head(s)) + Utf8Len(Tail(s))

S_db == <<"d","b">>
S_sqlite == <<"s","q","l","i","t","e">>
S_jsonl == <<"j","s","o","n","l">>
S_json == <<"j","s","o","n">>
S_txt == <<"t","x","t">>
S_Deutsch == <<"D","e","u","t","s","c","h">>

AllowedExts == {S_db, S_sqlite, S_jsonl, S_json}

UploadFaults ==
    {"none", "mkroot", "mkdir", "no_script", "spawn", "convert", "convert_partway",
     "remove", "copy", "copy_partway"}

\* the sequences obtained by putting x somewhere into seq (read_dir order is
\* not the order of creation)
Inserted(seq, x) ==
    { SubSeq(seq, 1, i - 1) \o <<x>> \o SubSeq(seq, i, Len(seq)) : i \in 1..(Len(seq) + 1) }

Without(seq, x) == SelectSeq(seq, LAMBDA y : y # x)

DirIndex(ds, name) == { i \in 1..Len(ds) : ds[i].name = name }

Fs(re, ds, pa, er) == [rootExists |-> re, dirs |-> ds, partial |-> pa, exeRoot |-> er]

CurrentFs == Fs(rootExists, dirs, partial, exeRoot)

UploadErr(err, fs) == [ok |-> FALSE, err |-> err, fs |-> fs]

UploadOk(fs) == [ok |-> TRUE, err |-> "", fs |-> fs]

\* the filesystems in which the files of directory i of fs are `files`
WithFiles(fs, i, files) ==
    [fs EXCEPT !.dirs = [fs.dirs EXCEPT ![i] = [@ EXCEPT !.files = files]]]

\* upload_dictionary_file from the point where target_dir exists: directory
\* i of fs is the target directory
UploadInto(fs, i, language_code, ext, fault) ==
    LET d      == fs.dirs[i]
        target == language_code \o S_dict_db_suffix
        path   == <<d.name, target>>
        rest   == Without(d.files, target)
        whole  == { [WithFiles(fs, i, fl) EXCEPT !.partial = fs.partial \ {path}] :
                      fl \in Inserted(rest, target) }
        broken == { [WithFiles(fs, i, fl) EXCEPT !.partial = fs.partial \cup {path}] :
                      fl \in Inserted(rest, target) }
    IN  IF ext \in {S_db, S_sqlite}
        THEN IF ~d.isDir THEN { UploadErr("CopyFailed", fs) }
             ELSE IF SeqHas(d.files, target) /\ fault = "remove"
             THEN { UploadErr("RemoveFailed", fs) }
             ELSE IF fault = "copy"
             THEN { UploadErr("CopyFailed",
                              [WithFiles(fs, i, rest) EXCEPT !.partial = fs.partial \ {path}]) }
             ELSE IF fault = "copy_partway"
             THEN { UploadErr("CopyFailed", g) : g \in broken }
             ELSE { UploadOk(g) : g \in whole }
        ELSE IF fault = "no_script" THEN { UploadErr("ScriptNotFound", fs) }
             ELSE IF fault = "spawn" THEN { UploadErr("SpawnFailed", fs) }
             ELSE IF fault = "convert" \/ ~d.isDir THEN { UploadErr("ConvertFailed", fs) }
             ELSE IF fault = "convert_partway"
             THEN { UploadErr("ConvertFailed", g) : g \in broken }
             ELSE { UploadOk(g) : g \in whole }

\* upload_dictionary_file from the point where dict_dir exists
UploadUnder(fs, language_code, language_name, ext, fault) ==
    IF DirIndex(fs.dirs, language_name) # {}
    THEN UploadInto(fs, Min(DirIndex(fs.dirs, language_name)), language_code, ext, fault)
    ELSE IF fault = "mkdir" THEN { UploadErr("CreateDirFailed", fs) }
    ELSE UNION { UploadInto([fs EXCEPT !.dirs = ds],
                            Min(DirIndex(ds, language_name)), language_code, ext, fault) :
                   ds \in Inserted(fs.dirs, Entry(language_name, TRUE, <<>>)) }

\* commands/dictionary.rs upload_dictionary_file: the outcomes it may have
upload_dictionary_file(language_code, language_name, file, fault) ==
    IF Utf8Len(language_code) < 2 \/ Utf8Len(language_code) > 3
    THEN { UploadErr("BadLanguageCode", CurrentFs) }
    ELSE IF ~file.exists THEN { UploadErr("FileNotFound", CurrentFs) }
    ELSE IF file.ext = None THEN { UploadErr("InvalidExtension", CurrentFs) }
    ELSE IF to_lowercase(Unwrap(file.ext)) \notin AllowedExts
    THEN { UploadErr("ExtensionNotAllowed", CurrentFs) }
    ELSE IF rootExists /\ exeRoot
    THEN UploadUnder(CurrentFs, language_code, language_name,
                     to_lowercase(Unwrap(file.ext)), fault)
    ELSE IF fault = "mkroot" THEN { UploadErr("CreateRootFailed", CurrentFs) }
    \* <exe directory>/dict is created; get_dict_dir finds it first from now on
    ELSE UploadUnder(Fs(TRUE, <<>>, {}, TRUE), language_code, language_name,
                     to_lowercase(Unwrap(file.ext)), fault)

UploadCodes == { S_de, <<"d">>, <<"ä">>, <<"d","e","u","t">> }

UploadNames == { S_German, S_Deutsch }

\* the file at file_path: whether it exists, and its extension
UploadFiles ==
    { [exists |-> FALSE, ext |-> Some(S_db)],
      [exists |-> TRUE, ext |-> Some(S_db)],
      [exists |-> TRUE, ext |-> Some(S_jsonl)],
      [exists |-> TRUE, ext |-> Some(S_txt)],
      [exists |-> TRUE, ext |-> None] }

\* (rootExists, exeRoot, dirs) at start-up of the administration
\* specification: no root; a root found elsewhere than under the exe
\* directory; <exe directory>/dict empty, or holding a store for "de"
UploadLayouts ==
    { <<FALSE, FALSE, <<>> >>,
      <<TRUE, FALSE, << Entry(S_German, TRUE, << S_dictionary_db >>) >> >>,
      <<TRUE, TRUE, <<>> >>,
      <<TRUE, TRUE, << Entry(S_de, TRUE, << S_de \o S_dict_db_suffix >>) >> >> }

InitUpload ==
    /\ \E lay \in UploadLayouts : rootExists = lay[1] /\ exeRoot = lay[2] /\ dirs = lay[3]
    /\ partial = {}
    /\ dictionary = << [id |-> 1, word |-> W_lauf, normalized_word |-> W_lauf],
                       [id |-> 2, word |-> W_laufen, normalized_word |-> W_laufen] >>
    /\ forms = << [dictionary_id |-> 2, form |-> W_lauf, normalized_form |-> W_lauf,
                   tags |-> Some(T_past)] >>
    /\ senses = 2
    /\ AppAtRest
    /\ call = Idle

Upload(code, name, file, fault) ==
    /\ call = Idle
    \* a fault is drawn only for a step the run reaches
    /\ \/ fault = "none"
       \/ upload_dictionary_file(code, name, file, fault)
            # upload_dictionary_file(code, name, file, "none")
    /\ \E out \in upload_dictionary_file(code, name, file, fault) :
          /\ rootExists' = out.fs.rootExists
          /\ dirs' = out.fs.dirs
          /\ partial' = out.fs.partial
          /\ exeRoot' = out.fs.exeRoot
          /\ call' = [op |-> "upload", code |-> code, name |-> name, file |-> file,
                      fault |-> fault, before |-> CurrentFs,
                      res |-> [ok |-> out.ok, err |-> out.err]]
    /\ UNCHANGED <<dictionary, forms, senses, appVars>>

NextUpload ==
    \/ \E c \in UploadCodes, n \in UploadNames, f \in UploadFiles, x \in UploadFaults :
          Upload(c, n, f, x)
    \/ Return

SpecUpload == InitUpload /\ [][NextUpload]_vars

Uploaded == call.op = "upload" /\ call.res.ok

(***************************************************************************)
(* C18  (as claimed) after upload_dictionary_file(language_code,           *)
(* language_name, file) returned success for a code of 2 or 3 characters   *)
(* and any language name, db::get_connection(language_code) opens the      *)
(* uploaded store and db::get_available_languages lists a record with that *)
(* code.                                                                   *)
(***************************************************************************)
C18_UploadedIsFound ==
    (Uploaded /\ Len(call.code) \in 2..3) =>
        /\ get_connection(call.code).ok
        /\ get_connection(call.code).path =
              Some(<<call.name, call.code \o S_dict_db_suffix>>)
        /\ \E k \in 1..Len(get_available_languages) :
              get_available_languages[k].code = call.code

(***************************************************************************)
(* C19  (as claimed) upload_dictionary_file leaves no partly written store *)
(* file: after a copy or a conversion failed part-way the target file is   *)
(* absent or complete, and no language code resolves to a partly written   *)
(* file.                                                                   *)
(***************************************************************************)
C19_NoPartialStore ==
    /\ (call.op = "upload" /\ ~call.res.ok) =>
          <<call.name, call.code \o S_dict_db_suffix>> \notin partial
    /\ \A c \in UploadCodes :
          get_connection(c).ok => Unwrap(get_connection(c).path) \notin partial

(***************************************************************************)
(* C20  (as claimed) when upload_dictionary_file is called with a language *)
(* code that is not 2 or 3 characters long, or with a file whose extension *)
(* is not an allowed one, it returns an error and the dictionary root, the *)
(* language directories and the store files are as before the call.        *)
(***************************************************************************)
C20_RejectedBeforeMutation ==
    (/\ call.op = "upload"
     /\ \/ Len(call.code) \notin 2..3
        \/ call.file.ext = None
        \/ to_lowercase(Unwrap(call.file.ext)) \notin AllowedExts) =>
        (~call.res.ok /\ CurrentFs = call.before)

(***************************************************************************)
(* commands/sanskrit.rs: the commands that run the external NLP scripts.   *)
(* `run` is what Command::output gave: the process did not start (with the *)
(* io error), it exited non-zero (with its stderr), or it exited with      *)
(* status 0 and printed either text that is no JSON (with the parse error) *)
(* or a JSON object.                                                       *)
(***************************************************************************)
M_empty_word ==
    <<"E","m","p","t","y"," ","w","o","r","d">>

M_empty_text ==
    <<"E","m","p","t","y"," ","t","e","x","t">>

M_run_python ==
    <<"F","a","i","l","e","d"," ","t","o"," ","r","u","n"," ","P","y","t",
      "h","o","n",":"," ">>

M_parse_result ==
    <<"F","a","i","l","e","d"," ","t","o"," ","p","a","r","s","e"," ","r",
      "e","s","u","l","t",":"," ">>

M_parse_health ==
    <<"F","a","i","l","e","d"," ","t","o"," ","p","a","r","s","e"," ","h",
      "e","a","l","t","h"," ","r","e","s","u","l","t">>

M_script_failed ==
    <<"P","y","t","h","o","n"," ","s","c","r","i","p","t"," ","f","a","i",
      "l","e","d">>

M_no_script ==
    <<"E","n","h","a","n","c","e","d"," ","S","a","n","s","k","r","i","t",
      " ","A","P","I"," ","s","c","r","i","p","t"," ","n","o","t"," ","f",
      "o","u","n","d">>

SpawnError(e) == [kind |-> "spawn_error", detail |-> e]
ExitNonZero(stderr) == [kind |-> "exit_nonzero", detail |-> stderr]
BadOutput(e) == [kind |-> "bad_output", detail |-> e]
Json(v) == [kind |-> "json", detail |-> v]

\* the JSON objects of the scenarios: the keys the commands read
JsonValues ==
    { [success |-> None, available |-> None, transliterated |-> None],
      [success |-> Some(FALSE), available |-> Some(FALSE), transliterated |-> None],
      [success |-> Some(TRUE), available |-> Some(TRUE), transliterated |-> Some(<<"o","m">>)] }

IoErrors == { <<"E","N","O","E","N","T">> }
StderrTexts == { <<"T","r","a","c","e">>, <<"K","e","y">> }
ParseErrors == { <<"E","O","F">>, <<"e","x","p","e","c","t","e","d">> }

NlpRuns ==
    { SpawnError(e) : e \in IoErrors } \cup { ExitNonZero(t) : t \in StderrTexts }
    \cup { BadOutput(e) : e \in ParseErrors } \cup { Json(v) : v \in JsonValues }

\* Ok(..) of a command: the result structure it returns
NlpOk(success, error, value) ==
    [ok |-> TRUE, success |-> success, error |-> error, value |-> value]

\* Err(String) of a command
NlpErr(message) == [ok |-> FALSE, success |-> FALSE, error |-> Some(message), value |-> None]

\* result.get("success").and_then(|v| v.as_bool()).unwrap_or(true)
SuccessOf(v) == IF IsSome(v.success) THEN Unwrap(v.success) ELSE TRUE

\* commands/sanskrit.rs sanskrit_split
sanskrit_split(word, mode, run) ==
    IF trim(word) = <<>> THEN NlpOk(FALSE, Some(M_empty_word), None)
    ELSE IF run.kind = "json" THEN NlpOk(TRUE, None, Some(run.detail))
    ELSE IF run.kind = "bad_output" THEN NlpOk(FALSE, Some(M_parse_result \o run.detail), None)
    ELSE IF run.kind = "exit_nonzero" THEN NlpOk(FALSE, Some(run.detail), None)
    ELSE NlpOk(FALSE, Some(M_run_python \o run.detail), None)

\* commands/sanskrit.rs sanskrit_transliterate
sanskrit_transliterate(text, run) ==
    IF trim(text) = <<>> THEN NlpOk(FALSE, Some(M_empty_text), None)
    ELSE IF run.kind = "json"
    THEN NlpOk(SuccessOf(run.detail), None, run.detail.transliterated)
    ELSE IF run.kind = "bad_output" THEN NlpOk(FALSE, Some(M_parse_result \o run.detail), None)
    ELSE IF run.kind = "exit_nonzero" THEN NlpOk(FALSE, Some(run.detail), None)
    ELSE NlpOk(FALSE, Some(M_run_python \o run.detail), None)

\* commands/sanskrit.rs sanskrit_health; `value` is vidyut_available (the two
\* other availability flags are read the same way)
sanskrit_health(run) ==
    IF run.kind = "json"
    THEN NlpOk(SuccessOf(run.detail), None,
               Some(IF IsSome(run.detail.available)
                    THEN Unwrap(run.detail.available) ELSE FALSE))
    ELSE IF run.kind = "bad_output" THEN NlpOk(FALSE, Some(M_parse_health), Some(FALSE))
    ELSE IF run.kind = "exit_nonzero" THEN NlpOk(FALSE, Some(M_script_failed), Some(FALSE))
    ELSE NlpOk(FALSE, Some(M_run_python \o run.detail), Some(FALSE))

\* commands/sanskrit.rs process_text; script_exists is
\* PathBuf::from("scripts/enhanced_sanskrit_api.py").exists()
process_text(text, script_exists, run) ==
    IF trim(text) = <<>> THEN NlpOk(FALSE, Some(M_empty_text), None)
    ELSE IF ~script_exists THEN NlpErr(M_no_script)
    ELSE IF run.kind = "json" THEN NlpOk(SuccessOf(run.detail), None, Some(run.detail))
    ELSE IF run.kind = "bad_output" THEN NlpOk(FALSE, Some(M_parse_result \o run.detail), None)
    ELSE IF run.kind = "exit_nonzero" THEN NlpOk(FALSE, Some(run.detail), None)
    ELSE NlpOk(FALSE, Some(M_run_python \o run.detail), None)

NlpTexts == { <<>>, W_blank, <<"o","m">> }
NlpModes == { <<"s","a","n","d","h","i">>, <<"m","o","r","p","h">> }

InitNlp ==
    /\ rootExists = FALSE
    /\ dirs = <<>>
    /\ dictionary = <<>>
    /\ forms = <<>>
    /\ senses = 0
    /\ partial = {}
    /\ exeRoot = TRUE
    /\ AppAtRest
    /\ call = Idle

SanskritSplit(word, mode, run) ==
    /\ call = Idle
    /\ call' = [op |-> "sanskrit_split", text |-> word, mode |-> mode,
                ran |-> trim(word) # <<>>, run |-> run,
                res |-> sanskrit_split(word, mode, run)]
    /\ UNCHANGED <<rootExists, dirs, dictionary, forms, senses, partial, exeRoot, appVars>>

SanskritTransliterate(text, run) ==
    /\ call = Idle
    /\ call' = [op |-> "sanskrit_transliterate", text |-> text,
                ran |-> trim(text) # <<>>, run |-> run,
                res |-> sanskrit_transliterate(text, run)]
    /\ UNCHANGED <<rootExists, dirs, dictionary, forms, senses, partial, exeRoot, appVars>>

SanskritHealth(run) ==
    /\ call = Idle
    /\ call' = [op |-> "sanskrit_health", ran |-> TRUE, run |-> run,
                res |-> sanskrit_health(run)]
    /\ UNCHANGED <<rootExists, dirs, dictionary, forms, senses, partial, exeRoot, appVars>>

ProcessText(text, script_exists, run) ==
    /\ call = Idle
    /\ call' = [op |-> "process_text", text |-> text, script_exists |-> script_exists,
                ran |-> (trim(text) # <<>> /\ script_exists), run |-> run,
                res |-> process_text(text, script_exists, run)]
    /\ UNCHANGED <<rootExists, dirs, dictionary, forms, senses, partial, exeRoot, appVars>>

NextNlp ==
    \/ \E w \in NlpTexts, m \in NlpModes, r \in NlpRuns : SanskritSplit(w, m, r)
    \/ \E t \in NlpTexts, r \in NlpRuns : SanskritTransliterate(t, r)
    \/ \E r \in NlpRuns : SanskritHealth(r)
    \/ \E t \in NlpTexts, e \in BOOLEAN, r \in NlpRuns : ProcessText(t, e, r)
    \/ Return

SpecNlp == InitNlp /\ [][NextNlp]_vars

NlpOps == {"sanskrit_split", "sanskrit_transliterate", "sanskrit_health", "process_text"}

\* the subprocess was run for the request in `call` and failed
NlpFailed ==
    /\ call.op \in NlpOps
    /\ call.ran
    /\ call.run.kind \in {"spawn_error", "exit_nonzero", "bad_output"}

(***************************************************************************)
(* C21  (as claimed) for sanskrit_split, sanskrit_transliterate,           *)
(* sanskrit_health and process_text: whenever the subprocess failed to     *)
(* start, exited non-zero or printed unparseable output, the command       *)
(* returns a structure with success = false whose error field contains the *)
(* raw io error, stderr text or parse error.                               *)
(***************************************************************************)
C21_RawErrorAttached ==
    NlpFailed =>
        /\ call.res.ok
        /\ ~call.res.success
        /\ IsSome(call.res.error)
        /\ Contains(Unwrap(call.res.error), call.run.detail)


(***************************************************************************)
(* Store-file selection inside one language directory.                     *)
(***************************************************************************)
\* the code-prefixed store file name of a language code
CodePrefixed(code) == code \o S_dict_db_suffix

\* the generic store file names of either function
GenericNames == { S_dictionary_db, S_dict_db, S_dict_sqlite }

\* root entry i is a language directory holding both the code-prefixed file
\* of its language and a generic-named file
HoldsBoth(i) ==
    /\ dirs[i].isDir
    /\ SeqHas(dirs[i].files, CodePrefixed(ListCodeName(to_lowercase(dirs[i].name))[1]))
    /\ \E j \in 1..Len(dirs[i].files) : dirs[i].files[j] \in GenericNames

(***************************************************************************)
(* C22  store-file selection follows a fixed priority: when a language     *)
(* directory holds both a code-prefixed store file and a generic-named     *)
(* one, the connection provider opens the code-prefixed file and the       *)
(* listing reports the code-prefixed file, whatever the order in which the *)
(* directory enumerates its files; and the two functions accept the same   *)
(* file names.                                                             *)
(***************************************************************************)
C22_FixedPriority ==
    call.op = "list_languages" =>
        \A i \in 1..Len(dirs) :
            LET code == ListCodeName(to_lowercase(dirs[i].name))[1]
                best == Some(<<dirs[i].name, CodePrefixed(code)>>)
            IN  /\ (HoldsBoth(i) /\ Min(ConnDirs(code)) = i) =>
                      /\ get_connection(code).path = best
                      /\ \E k \in 1..Len(call.res) : call.res[k].path = best
                /\ dirs[i].isDir =>
                      \A j \in 1..Len(dirs[i].files) :
                          SeqHas(ListPatterns(code), dirs[i].files[j])
                              <=> SeqHas(ConnPatterns(code, to_lowercase(dirs[i].name)),
                                         dirs[i].files[j])

(***************************************************************************)
(* C24  the listing and the connection provider agree: the listing holds a *)
(* record with code c exactly when get_connection(c) finds a store for c,  *)
(* and the path reported in a record is the file its counts were computed  *)
(* from.                                                                   *)
(***************************************************************************)
C24_ListingAgreesWithProvider ==
    call.op = "list_languages" =>
        /\ \A c \in QueryLangs : Listed(c) <=> get_connection(c).ok
        /\ \A k \in 1..Len(call.res) : call.res[k].path = call.res[k].opened

(***************************************************************************)
(* C25  the listing holds at most one record per language code, also when  *)
(* a full-name directory and a code directory of one language both exist.  *)
(***************************************************************************)
C25_OneRecordPerCode ==
    call.op = "list_languages" =>
        \A j, k \in 1..Len(call.res) :
            call.res[j].code = call.res[k].code => j = k

(***************************************************************************)
(* The listing over directories whose names are not in the name/code       *)
(* table.                                                                  *)
(***************************************************************************)
S_Xx == <<"X","x">>

\* dir_name is neither a name nor a code of the table
Unmatched(dir_name) ==
    \A k \in 1..Len(name_to_code) :
        dir_name # name_to_code[k][1] /\ dir_name # name_to_code[k][2]

UnmatchedFileNames == { S_xx \o S_dict_db_suffix, S_dictionary_db, S_dict_db }

UnmatchedEntries ==
    { Entry(n, TRUE, fs) : n \in {S_xx, S_Xx, S_de},
                           fs \in DistinctSeqsUpTo(UnmatchedFileNames, MaxFiles) }

UnmatchedLayouts ==
    { q \in SeqsUpTo(UnmatchedEntries, MaxDirs) :
        \A i, j \in 1..Len(q) : i # j => to_lowercase(q[i].name) # to_lowercase(q[j].name) }

\* Start-up of the unmatched-name specification: a root holding directories
\* named xx, Xx or de; every store file holds the rows of InitFs.
InitList ==
    /\ rootExists = TRUE
    /\ dirs \in UnmatchedLayouts
    /\ dictionary = << [id |-> 1, word |-> W_lauf, normalized_word |-> W_lauf],
                       [id |-> 2, word |-> W_laufen, normalized_word |-> W_laufen] >>
    /\ forms = << [dictionary_id |-> 2, form |-> W_lauf, normalized_form |-> W_lauf,
                   tags |-> Some(T_past)] >>
    /\ senses = 2
    /\ partial = {}
    /\ exeRoot = TRUE
    /\ AppAtRest
    /\ call = Idle

NextList ==
    \/ ListLanguages
    \/ Return

SpecList == InitList /\ [][NextList]_vars

(***************************************************************************)
(* C23  a subdirectory whose lower-cased name is not in the name/code      *)
(* table and which holds a store file is listed, its directory name used   *)
(* verbatim as the record's code and as its display name.                  *)
(***************************************************************************)
C23_UnmatchedListedVerbatim ==
    call.op = "list_languages" =>
        \A i \in 1..Len(dirs) :
            ( /\ dirs[i].isDir
              /\ Unmatched(to_lowercase(dirs[i].name))
              /\ IsSome(ListDbPath(dirs[i], to_lowercase(dirs[i].name))) ) =>
                \E k \in 1..Len(call.res) :
                    /\ call.res[k].code = dirs[i].name
                    /\ call.res[k].name = dirs[i].name

(***************************************************************************)
(* C29  in every batch result, found is the number of keys of results and  *)
(* found is at most total, also for a word list that holds one word more   *)
(* than once.                                                              *)
(***************************************************************************)
C29_FoundCountsKeys ==
    call.op = "batch_query" =>
        /\ call.res.found = Cardinality(DOMAIN call.res.results)
        /\ call.res.found <= call.res.total

(***************************************************************************)
(* commands/dictionary.rs: remove_dictionary.  The command works on        *)
(* <exe directory>/dict like upload_dictionary_file.  `fault` is "none",   *)
(* or "remove_dir" when fs::remove_dir_all fails; a removal that fails may *)
(* have removed some files of the directory already.                       *)
(***************************************************************************)
RemoveFaults == {"none", "remove_dir"}

\* the files left of `files` when any part of them was removed
LeftOf(files) ==
    { SelectSeq(files, LAMBDA f : f \in keep) :
        keep \in SUBSET { files[j] : j \in 1..Len(files) } }

\* commands/dictionary.rs remove_dictionary: the outcomes it may have
remove_dictionary(language_code, fault) ==
    IF ~(rootExists /\ exeRoot) \/ DirIndex(dirs, language_code) = {}
    THEN { UploadErr("NotFound", CurrentFs) }
    ELSE LET i == Min(DirIndex(dirs, language_code))
             gone == [ k \in 1..(Len(dirs) - 1) |-> IF k < i THEN dirs[k] ELSE dirs[k + 1] ]
         IN  IF fault = "remove_dir"
             THEN { UploadErr("RemoveDirFailed",
                              [WithFiles(CurrentFs, i, fl) EXCEPT
                                  !.partial = { p \in partial :
                                                  p[1] # language_code \/ SeqHas(fl, p[2]) }]) :
                      fl \in LeftOf(dirs[i].files) }
             ELSE { UploadOk([CurrentFs EXCEPT
                                 !.dirs = gone,
                                 !.partial = { p \in partial : p[1] # language_code }]) }

RemoveCodes == { S_de, S_German }

RemoveNames == { S_de, S_German }

RemoveUploadFiles ==
    { [exists |-> TRUE, ext |-> Some(S_db)],
      [exists |-> TRUE, ext |-> Some(S_jsonl)] }

\* remove_dictionary, called from the idle state or by the caller that holds
\* the response of an upload; `after` is the response the caller held
Remove(code, fault) ==
    /\ call.op \in {"idle", "upload"}
    /\ \/ fault = "none"
       \/ remove_dictionary(code, fault) # remove_dictionary(code, "none")
    /\ \E out \in remove_dictionary(code, fault) :
          /\ rootExists' = out.fs.rootExists
          /\ dirs' = out.fs.dirs
          /\ partial' = out.fs.partial
          /\ exeRoot' = out.fs.exeRoot
          /\ call' = [op |-> "remove", code |-> code, fault |-> fault,
                      after |-> IF call.op = "upload"
                                THEN [op |-> "upload", code |-> call.code,
                                      name |-> call.name, res |-> call.res]
                                ELSE Idle,
                      res |-> [ok |-> out.ok, err |-> out.err]]
    /\ UNCHANGED <<dictionary, forms, senses, appVars>>

NextRemove ==
    \/ \E c \in {S_de}, n \in RemoveNames, f \in RemoveUploadFiles, x \in {"none", "copy"} :
          Upload(c, n, f, x)
    \/ \E c \in RemoveCodes, x \in RemoveFaults : Remove(c, x)
    \/ Return

SpecRemove == InitUpload /\ [][NextRemove]_vars

\* remove_dictionary(language_code) ran without an I/O failure right after
\* upload_dictionary_file(language_code, language_name, file) had succeeded
RemovedAfterUpload ==
    /\ call.op = "remove"
    /\ call.fault = "none"
    /\ call.after.op = "upload"
    /\ call.after.res.ok
    /\ call.after.code = call.code

(***************************************************************************)
(* C30  install/remove round trip: after upload_dictionary_file(           *)
(* language_code, language_name, file) succeeded,                          *)
(* remove_dictionary(language_code) succeeds, and afterwards the language  *)
(* is neither listed by get_available_languages nor opened by              *)
(* get_connection(language_code).                                          *)
(***************************************************************************)
C30_InstallRemoveRoundTrip ==
    RemovedAfterUpload =>
        /\ call.res.ok
        /\ ~get_connection(call.code).ok
        /\ \A k \in 1..Len(get_available_languages) :
              get_available_languages[k].code # call.code

(***************************************************************************)
(* commands/vocabulary.rs: save_term, delete_term and update_term.  Each   *)
(* command locks the state only to clone the path of the terms file; it    *)
(* then loads the file, changes the loaded data, emits "term-update" and   *)
(* writes the data back.  `termsFile` is the list of terms load_terms      *)
(* reads from the file; `cmds` holds, per invocation slot, how far the     *)
(* command got and the data it loaded; `events` are the events emitted and *)
(* not yet taken by a listener.                                            *)
(***************************************************************************)
MaxTerms == 2

MaxEvents == 1

Workers == {"w1", "w2"}

S_a == <<"a">>
S_B == <<"B">>

TermTexts == { S_a, S_B }

\* chrono::Utc::now().timestamp_millis() of the run
Times == { "t1" }

\* save_term: main_id
TermId(languageId, text, now) == <<languageId, to_lowercase(text), now>>

TermIds == { TermId(S_de, t, now) : t \in TermTexts, now \in Times }

\* save_term: main_term, of the fields the model follows
NewTerm(input, now) ==
    [id |-> TermId(input.languageId, input.text, now), text |-> input.text,
     status |-> IF IsSome(input.status) THEN Unwrap(input.status) ELSE 0]

TermInputs == { [text |-> t, languageId |-> S_de, status |-> None] : t \in TermTexts }

\* update_term: the updates the model follows
TermUpdates == { [status |-> Some(1)] }

\* data.terms.iter().position(|t| t.id == id)
Position(terms, id) ==
    LET hit == { i \in 1..Len(terms) : terms[i].id = id }
    IN  IF hit = {} THEN None ELSE Some(Min(hit))

\* data.terms.remove(index)
RemoveAt(terms, index) ==
    [ k \in 1..(Len(terms) - 1) |-> IF k < index THEN terms[k] ELSE terms[k + 1] ]

\* update_term: "Apply updates"
ApplyUpdates(term, updates) ==
    IF IsSome(updates.status) THEN [term EXCEPT !.status = Unwrap(updates.status)] ELSE term

TermUpdateEvent(action, term) == [event |-> "term-update", action |-> action, term |-> term]

IdleCmd == [pc |-> "idle"]

\* a command that loaded and changed `data`, emitted `event`, and is about
\* to call save_terms
Loaded(op, id, data, event) ==
    [pc |-> "loaded", op |-> op, id |-> id, data |-> data, event |-> event]

\* a command that ended; `emitted` tells whether it emitted its event
Done(op, id, event, emitted, ok, err) ==
    [pc |-> "done", op |-> op, id |-> id, event |-> event, emitted |-> emitted,
     ok |-> ok, err |-> err]

InFlightSaves == Cardinality({ w \in Workers : cmds[w].pc = "loaded" /\ cmds[w].op = "save_term" })

\* Start-up of the vocabulary specification: the terms file holds some terms
\* saved earlier; no command runs.
InitVocab ==
    /\ rootExists = FALSE
    /\ dirs = <<>>
    /\ dictionary = <<>>
    /\ forms = <<>>
    /\ senses = 0
    /\ partial = {}
    /\ exeRoot = FALSE
    /\ call = Idle
    /\ termsFile \in { <<>>, << NewTerm([text |-> S_a, languageId |-> S_de, status |-> None], "t1") >> }
    /\ cmds = [ w \in Workers |-> IdleCmd ]
    /\ events = <<>>
    /\ monitoring = FALSE
    /\ loops = <<>>
    /\ clipboard = <<>>

vocabRest == <<rootExists, dirs, dictionary, forms, senses, partial, exeRoot, call,
               monitoring, loops, clipboard>>

\* save_term up to the call of save_terms
SaveTermLoad(w, input, now) ==
    /\ cmds[w].pc = "idle"
    /\ Len(termsFile) + InFlightSaves < MaxTerms
    /\ Len(events) <= MaxEvents
    /\ LET main_term == NewTerm(input, now)
           event == TermUpdateEvent("add", main_term)
       IN  /\ cmds' = [cmds EXCEPT ![w] =
                          Loaded("save_term", main_term.id, Append(termsFile, main_term), event)]
           /\ events' = Append(events, event)
    /\ UNCHANGED <<termsFile, vocabRest>>

\* delete_term up to the call of save_terms, or to its early return
DeleteTermLoad(w, id) ==
    /\ cmds[w].pc = "idle"
    /\ Len(events) <= MaxEvents
    /\ LET index == Position(termsFile, id)
       IN  IF index = None
           THEN /\ cmds' = [cmds EXCEPT ![w] =
                               Done("delete_term", id, None, FALSE, FALSE, "Term not found")]
                /\ UNCHANGED events
           ELSE LET event == TermUpdateEvent("delete", termsFile[Unwrap(index)])
                IN  /\ cmds' = [cmds EXCEPT ![w] =
                                   Loaded("delete_term", id,
                                          RemoveAt(termsFile, Unwrap(index)), event)]
                    /\ events' = Append(events, event)
    /\ UNCHANGED <<termsFile, vocabRest>>

\* update_term up to the call of save_terms, or to its early return
UpdateTermLoad(w, id, updates) ==
    /\ cmds[w].pc = "idle"
    /\ Len(events) <= MaxEvents
    /\ LET index == Position(termsFile, id)
       IN  IF index = None
           THEN /\ cmds' = [cmds EXCEPT ![w] =
                               Done("update_term", id, None, FALSE, FALSE, "Term not found")]
                /\ UNCHANGED events
           ELSE LET term == ApplyUpdates(termsFile[Unwrap(index)], updates)
                    event == TermUpdateEvent("update", term)
                IN  /\ cmds' = [cmds EXCEPT ![w] =
                                   Loaded("update_term", id,
                                          [termsFile EXCEPT ![Unwrap(index)] = term], event)]
                    /\ events' = Append(events, event)
    /\ UNCHANGED <<termsFile, vocabRest>>

\* save_terms(&terms_path, &data)? and the return of the command
SaveTerms(w, written) ==
    /\ cmds[w].pc = "loaded"
    /\ IF written
       THEN /\ termsFile' = cmds[w].data
            /\ cmds' = [cmds EXCEPT ![w] =
                           Done(@.op, @.id, Some(@.event), TRUE, TRUE, "")]
       ELSE /\ UNCHANGED termsFile
            /\ cmds' = [cmds EXCEPT ![w] =
                           Done(@.op, @.id, Some(@.event), TRUE, FALSE,
                                "Failed to write terms file")]
    /\ UNCHANGED <<events, vocabRest>>

\* the response is handed to the caller
Finish(w) ==
    /\ cmds[w].pc = "done"
    /\ cmds' = [cmds EXCEPT ![w] = IdleCmd]
    /\ UNCHANGED <<termsFile, events, vocabRest>>

\* a listener takes the oldest event
Deliver ==
    /\ events # <<>>
    /\ events' = Tail(events)
    /\ UNCHANGED <<termsFile, cmds, vocabRest>>

NextVocab ==
    \/ \E w \in Workers, input \in TermInputs, now \in Times : SaveTermLoad(w, input, now)
    \/ \E w \in Workers, id \in TermIds : DeleteTermLoad(w, id)
    \/ \E w \in Workers, id \in TermIds, u \in TermUpdates : UpdateTermLoad(w, id, u)
    \/ \E w \in Workers, written \in BOOLEAN : SaveTerms(w, written)
    \/ \E w \in Workers : Finish(w)
    \/ Deliver

SpecVocab == InitVocab /\ [][NextVocab]_vars

\* both slots hold a command that ended with success
BothDone == \A w \in Workers : cmds[w].pc = "done" /\ cmds[w].ok

\* the change of the command in slot w is in the terms file, as far as the
\* command in slot v did not work on the same term
Reflected(w, v) ==
    cmds[v].id # cmds[w].id =>
        CASE cmds[w].op = "save_term" ->
                 \E i \in 1..Len(termsFile) : termsFile[i] = Unwrap(cmds[w].event).term
          [] cmds[w].op = "update_term" ->
                 \E i \in 1..Len(termsFile) : termsFile[i] = Unwrap(cmds[w].event).term
          [] cmds[w].op = "delete_term" ->
                 \A i \in 1..Len(termsFile) : termsFile[i].id # cmds[w].id

(***************************************************************************)
(* C26  no vocabulary update is lost under concurrency: when two           *)
(* save_term / update_term / delete_term commands that ran at the same     *)
(* time have both ended with success, the terms file holds the change of   *)
(* each of them (two save_term calls leave both new terms stored).         *)
(***************************************************************************)
C26_NoLostUpdate ==
    BothDone => \A w, v \in Workers : w # v => Reflected(w, v)

(***************************************************************************)
(* C27  a "term-update" event is emitted only for a change that was        *)
(* written: when save_term, update_term or delete_term returns Err because *)
(* writing the terms file failed, it has emitted no event for its change.  *)
(***************************************************************************)
C27_EventOnlyIfPersisted ==
    \A w \in Workers :
        (cmds[w].pc = "done" /\ ~cmds[w].ok /\ cmds[w].err = "Failed to write terms file") =>
            ~cmds[w].emitted

(***************************************************************************)
(* main.rs: the clipboard monitor.  `monitoring` is the AtomicBool of      *)
(* AppState; `loops` holds, per thread, where the thread is and its        *)
(* last_clipboard; `clipboard` is the text on the system clipboard;        *)
(* `events` are the "new-query" events emitted since the clipboard last    *)
(* changed.  The thread "main" is the one spawned at start-up, the others  *)
(* are spawned by start_clipboard_monitor.                                 *)
(***************************************************************************)
\* main.rs: text.len() < 200
ClipLimit == 200

\* the events followed for one clipboard content
MaxQueries == 2

Spawned == {"t1", "t2"}

Threads == {"main"} \cup Spawned

S_x == <<"x">>
S_y == <<"y">>

\* a text of ClipLimit bytes
LongText == [ i \in 1..ClipLimit |-> "x" ]

ClipTexts == { <<>>, S_x, S_y, LongText }

\* String::len: the length in bytes, summed without recursion
ByteLen(s) ==
    Len(s) + Cardinality({ i \in 1..Len(s) : CharBytes(s[i]) = 2 })
           + 2 * Cardinality({ i \in 1..Len(s) : CharBytes(s[i]) = 3 })

NoLoop == [pc |-> "none", last_clipboard |-> <<>>]

\* the thread is inside `while monitoring.load(..)`
Running(t) == loops[t].pc \in {"check", "sleeping"}

\* Start-up of the monitor specification: the flag is false and the
\* start-up thread sleeps its five seconds.
InitClip ==
    /\ rootExists = FALSE
    /\ dirs = <<>>
    /\ dictionary = <<>>
    /\ forms = <<>>
    /\ senses = 0
    /\ partial = {}
    /\ exeRoot = FALSE
    /\ call = Idle
    /\ termsFile = <<>>
    /\ cmds = <<>>
    /\ events = <<>>
    /\ monitoring = FALSE
    /\ loops = [ t \in Threads |->
                   IF t = "main" THEN [pc |-> "startup", last_clipboard |-> <<>>] ELSE NoLoop ]
    /\ clipboard \in { <<>>, S_x }

clipRest == <<rootExists, dirs, dictionary, forms, senses, partial, exeRoot, call,
              termsFile, cmds>>

\* main: the start-up thread after its sleep of five seconds
StartupMonitor ==
    /\ loops["main"].pc = "startup"
    /\ monitoring' = TRUE
    /\ loops' = [loops EXCEPT !["main"] = [pc |-> "check", last_clipboard |-> <<>>]]
    /\ UNCHANGED <<clipboard, events, clipRest>>

\* start_clipboard_monitor: store(true) and thread::spawn
StartMonitor ==
    /\ \E t \in Spawned : loops[t].pc = "none"
    /\ LET t == CHOOSE t \in Spawned : loops[t].pc = "none"
       IN  loops' = [loops EXCEPT ![t] = [pc |-> "check", last_clipboard |-> <<>>]]
    /\ monitoring' = TRUE
    /\ UNCHANGED <<clipboard, events, clipRest>>

\* stop_clipboard_monitor
StopMonitor ==
    /\ monitoring' = FALSE
    /\ UNCHANGED <<loops, clipboard, events, clipRest>>

\* one pass of the loop body up to thread::sleep; `read` tells whether
\* read_text returned Ok, `floating` whether the floating window exists
LoopIterate(t, read, floating) ==
    /\ loops[t].pc = "check"
    /\ monitoring
    /\ IF read /\ clipboard # <<>> /\ clipboard # loops[t].last_clipboard
             /\ ByteLen(clipboard) < ClipLimit
       THEN /\ floating => Len(events) < MaxQueries
            /\ loops' = [loops EXCEPT ![t] = [pc |-> "sleeping", last_clipboard |-> clipboard]]
            /\ events' = IF floating
                         THEN Append(events, [event |-> "new-query", text |-> clipboard])
                         ELSE events
       ELSE /\ loops' = [loops EXCEPT ![t].pc = "sleeping"]
            /\ UNCHANGED events
    /\ UNCHANGED <<monitoring, clipboard, clipRest>>

\* thread::sleep(800 ms) is over
LoopWake(t) ==
    /\ loops[t].pc = "sleeping"
    /\ loops' = [loops EXCEPT ![t].pc = "check"]
    /\ UNCHANGED <<monitoring, clipboard, events, clipRest>>

\* monitoring.load(..) is false: the thread leaves the loop and ends
LoopExit(t) ==
    /\ loops[t].pc = "check"
    /\ ~monitoring
    /\ loops' = [loops EXCEPT ![t] = IF t = "main"
                                     THEN [pc |-> "ended", last_clipboard |-> <<>>]
                                     ELSE NoLoop]
    /\ UNCHANGED <<monitoring, clipboard, events, clipRest>>

\* the user copies another text
ClipboardChange(text) ==
    /\ text # clipboard
    /\ clipboard' = text
    /\ events' = <<>>
    /\ UNCHANGED <<monitoring, loops, clipRest>>

NextClip ==
    \/ StartupMonitor
    \/ StartMonitor
    \/ StopMonitor
    \/ \E t \in Threads, read \in BOOLEAN, floating \in BOOLEAN : LoopIterate(t, read, floating)
    \/ \E t \in Threads : LoopWake(t)
    \/ \E t \in Threads : LoopExit(t)
    \/ \E text \in ClipTexts : ClipboardChange(text)

SpecClip == InitClip /\ [][NextClip]_vars

(***************************************************************************)
(* C28  at most one clipboard-monitor loop runs at any time, for every     *)
(* interleaving of the start-up thread, start_clipboard_monitor and        *)
(* stop_clipboard_monitor; hence one change of the clipboard gives at most *)
(* one "new-query" event.                                                  *)
(***************************************************************************)
C28_SingleMonitorLoop ==
    /\ Cardinality({ t \in Threads : Running(t) }) <= 1
    /\ Len(events) <= 1
====
